---- MODULE Spec2Model ----
(***************************************************************************)
(* Model of the session speech daemon (src/src/session_daemon.py).         *)
(*                                                                         *)
(* Spec      : one constructed SessionSpeechDaemon: the request loop       *)
(*             (run / process_request / transcribe_audio) interleaved with *)
(*             the inactivity monitor thread (monitor_session_timeout /    *)
(*             shutdown_session), clients dropping request files, and the  *)
(*             wall clock.                                                 *)
(* SpecBreaker: the same daemon, with the failures of a request counted    *)
(*             beyond FailureBound.                                        *)
(* SpecStart : two processes running main(): check_existing_daemon, the    *)
(*             constructor's marker files, and a running daemon's writes   *)
(*             to them.                                                    *)
(* SpecSignal: the same daemon as Spec with SIGINT/SIGTERM delivered to    *)
(*             the main thread at any statement (signal_handler).          *)
(* SpecIdle  : SessionCoordinator and SessionTimeoutMonitor                *)
(*             (src/src/session_coordinator.py) beside the daemon's own    *)
(*             monitor, on a clock that stops exactly at the timeout.      *)
(* SpecFileReq: SpeechDaemon's file request loop (src/speech_daemon.py).   *)
(* SpecQuit  : the request loop and the monitor, with the main thread      *)
(*             scheduled fairly, up to shutdown_session.                   *)
(* SpecEngine: SpeechEngine (src/src/speech_engine.py) and the daemon's    *)
(*             load_model_on_demand.                                       *)
(* SpecRoute : the confidence routing of src/speech_daemon.py and          *)
(*             src/speech_to_text_confidence.py.                           *)
(* SpecDenoise: AudioPreprocessor.apply_noise_cancelling                   *)
(*             (src/src/audio_processor.py).                               *)
(* SpecHandoff: process_with_daemon (src/speech_to_text_daemon_client.py)  *)
(*             beside SpeechDaemon's file request loop.                    *)
(* SpecApi   : SpeechDaemon.process_request and its two queues.            *)
(* SpecFlag  : SessionCoordinator's calls and the daemon's shutdown paths, *)
(*             for the shutdown flags.                                     *)
(* SpecCalib : the daemon's VAD threshold calibration (collect_baseline_rms,*)
(*             analyze_speech_contrast, update_calibrated_threshold).      *)
(* SpecHeuristic: estimate_confidence_heuristic on texts of a small        *)
(*             vocabulary.                                                 *)
(* SpecStrip : the stripping of the correction backend's output            *)
(*             (correct_with_claude_limited_context).                      *)
(*                                                                         *)
(* Threads interleave between Python statements: every attribute read or   *)
(* write of the daemon object is one step.  Of the status file the model   *)
(* keeps 'processing', 'timestamp' and 'pid', of a response 'id', 'type'   *)
(* and 'results': the other fields ('device', 'model_size', 'active',      *)
(* 'model_loaded', 'session_active', ...) are copies of daemon fields that *)
(* no code of the repository reads back.                                   *)
(***************************************************************************)
EXTENDS Integers, Sequences, FiniteSets, TLC

\* ------------------------------------------------------------------ bounds
MaxRequests == 2
\* the clock of Spec advances in steps of TickStep seconds up to MaxTime,
\* the clock of SpecStart in steps of StartTick seconds
TickStep == 90
MaxTime == 90
StartTick == 30
\* main(): session_timeout = int(sys.argv[1]); the default of 600 s lies
\* beyond the time horizon of the model
SessionTimeout == 30

\* ------------------------------------------------------- program constants
\* check_existing_daemon: status "updated within last 60 seconds"
RecencyWindow == 60
\* monitor_session_timeout: time.sleep(30)
MonitorInterval == 30
\* monitor_session_timeout: time.sleep(60) after an exception
MonitorErrorSleep == 60
\* SessionTimeoutMonitor.__init__: check_interval: int = 30
CheckInterval == 30
\* spec.md 4.6: "failed more than a small bound (e.g. 3 times)"
FailureBound == 3

ReqIds == 1..MaxRequests
\* what a client puts behind a request identifier: a file that is not JSON,
\* a ping, or a transcribe request whose audio file is missing, silent, or
\* holds speech
Kinds == {"malformed", "ping", "missing", "silent", "speech"}
\* the processes started with main(), named by their os.getpid()
Procs == {"p1", "p2"}
\* the process id of a daemon that was killed before the model starts
DeadPid == "p0"
\* os.getpid() of the daemon of Spec
Self == "p1"

VARIABLES
    now,                 \* time.time()
    \* ---- SessionSpeechDaemon fields
    model,               \* self.model: "None", "Model", or "Deleted" (after del)
    is_model_loaded,
    last_activity,
    processing,
    shutdown_requested,
    \* ---- files
    requestDir,          \* ids whose request file is in /tmp/speech_session_requests
    reqKind,             \* content of each request file ("none": no file)
    responses,           \* id -> <<>> or <<response>> in the response directory
    statusFile,          \* <<>> or <<status>>
    pidFile,             \* "absent", "empty", or a process id
    sessionFile,         \* BOOLEAN: /tmp/session_daemon_active exists
    \* ---- threads of the daemon
    tpc,                 \* position of "main" and of "monitor"; under "sig" the
                         \* position at which signal_handler interrupted the main
                         \* thread ("none": no signal so far, "swallowed": the
                         \* handler raised and its exception was caught)
    request_files,       \* run(): the glob result not yet iterated
    cur,                 \* process_request: request_file (0: none)
    results,             \* transcribe_audio's return value
    inactive_time,       \* monitor_session_timeout's local
    wakeAt,              \* end of the monitor's time.sleep
    typed,               \* ids whose text went to pyautogui.typewrite
    \* ---- observation only (no code reads these)
    nextId,              \* next identifier a client uses
    handling,            \* ids inside process_request
    failCount,           \* per id: times process_request's except ran, counted
                         \* up to countTo
    countTo,             \* how far a specification counts failures
    transcribed,         \* ids with a request file whose audio has been through
                         \* model.transcribe and the segment loop
    err,                 \* fatal error met by the request in hand: "none",
                         \* "audio" (sf.read raised), "inference"
    \* ---- processes started with main()
    spc,                 \* per process: position in main()
    pidRead,             \* check_existing_daemon's local pid
    verdict,             \* observation: what check_existing_daemon found
    \* ---- session_coordinator.py
    \* ---- speech_daemon.py / speech_to_text_confidence.py
    route,               \* one pass through the confidence routing: its input
                         \* (raw transcript, confidence in percent, what the
                         \* correction backend will do), position, and output
    \* ---- audio_processor.py
    denoise,             \* one call of apply_noise_cancelling: its position,
                         \* original_audio, the local audio, the value returned,
                         \* and whether the except clause ran
    \* ---- speech_to_text_daemon_client.py
    client,              \* one caller of process_with_daemon: position, the id
                         \* of its request, the response it read, the value
                         \* returned, and whether it fell back to transcribing
                         \* the audio itself
    \* ---- speech_daemon.py, queue API
    api,                 \* processing_queue, result_queue, the position of
                         \* background_processor on its queue item, and each
                         \* caller of process_request
    \* ---- session_daemon.py, calibration
    calib,               \* baseline_rms, calibrated_threshold and
                         \* speech_contrast_data of one daemon, the position of
                         \* its main thread between the calibration calls, the
                         \* RMS of the clip in hand and the threshold handed to
                         \* model.transcribe; levels in units of 0.0001
    \* ---- speech_daemon.py, text functions
    textfn,              \* one call of estimate_confidence_heuristic (the text
                         \* as a list of characters, the confidence returned in
                         \* percent) and one post-processing of the correction
                         \* backend's output (stdout, the text returned)
    \* ---- speech_engine.py
    engine,              \* the SpeechEngine object: model, is_model_loaded, the
                         \* position of its caller inside transcribe_audio, and
                         \* the TranscriptionResult of the last call; observed:
                         \* the WhisperModel constructions of that call
    coord,               \* the SessionCoordinator object: last_activity,
                         \* processing, shutdown_requested
    mon                  \* SessionTimeoutMonitor's thread: pc, wakeAt (end of
                         \* its time.sleep)

vars == <<now, model, is_model_loaded, last_activity, processing,
          shutdown_requested, requestDir, reqKind, responses, statusFile,
          pidFile, sessionFile, tpc, request_files, cur, results,
          inactive_time, wakeAt, typed, nextId, handling, failCount, countTo, transcribed,
          err, spc, pidRead, verdict, coord, mon, engine, route, denoise, client, api, calib, textfn>>

daemonVars == <<model, is_model_loaded, last_activity, processing, shutdown_requested>>
fileVars == <<requestDir, reqKind, responses, statusFile, pidFile, sessionFile>>
localVars == <<request_files, cur, results, inactive_time, wakeAt, typed>>
ghostVars == <<nextId, handling, failCount, countTo, transcribed, err>>
startVars == <<spc, pidRead, verdict>>
coordVars == <<coord, mon>>
engineVars == <<engine>>
routeVars == <<route>>
denoiseVars == <<denoise>>
clientVars == <<client>>
apiVars == <<api>>
calibVars == <<calib>>
textVars == <<textfn>>
moduleVars == <<engineVars, routeVars, denoiseVars, clientVars, apiVars, calibVars, textVars>>
besideEngine == <<routeVars, denoiseVars, clientVars, apiVars, calibVars, textVars>>
besideRoute == <<engineVars, denoiseVars, clientVars, apiVars, calibVars, textVars>>
besideDenoise == <<engineVars, routeVars, clientVars, apiVars, calibVars, textVars>>
besideClient == <<engineVars, routeVars, denoiseVars, apiVars, calibVars, textVars>>
besideApi == <<engineVars, routeVars, denoiseVars, clientVars, calibVars, textVars>>
besideCalib == <<engineVars, routeVars, denoiseVars, clientVars, apiVars, textVars>>
besideText == <<engineVars, routeVars, denoiseVars, clientVars, apiVars, calibVars>>

Goto(t, l) == tpc' = [tpc EXCEPT ![t] = l]

\* update_status: the status dictionary as json.dump writes it
StatusRecord(proc, t, pid) ==
    [processing |-> proc, timestamp |-> t, pid |-> pid]

\* SessionCoordinator.__init__ at time 0, and SessionTimeoutMonitor's thread
\* as start_monitoring leaves it: at the head of _monitor_loop's while
CoordInit ==
    /\ coord = [last_activity |-> 0, processing |-> FALSE,
                shutdown_requested |-> FALSE,
                session_timeout |-> SessionTimeout, status_file |-> <<>>]
    /\ mon = [pc |-> "loop", wakeAt |-> 0]

\* SpeechEngine.__init__: no model; nobody is inside transcribe_audio
EngineInit ==
    engine = [model |-> "None", is_model_loaded |-> FALSE, pc |-> "idle",
              result |-> <<>>, constructions |-> 0]

\* nothing has been routed yet
RouteInit ==
    route = [pc |-> "idle", impl |-> "daemon", raw |-> "", confidence |-> 0,
             backend |-> "ok", final |-> "", path |-> "", calls |-> 0]

\* apply_noise_cancelling has not been called
DenoiseInit ==
    denoise = [pc |-> "idle", original_audio |-> <<>>, audio |-> <<>>,
               out |-> <<>>, failed |-> FALSE]

\* process_with_daemon has not been called
ClientInit ==
    client = [pc |-> "idle", id |-> 0, response |-> <<>>, returned |-> <<>>,
              fallback |-> FALSE]

\* threads that call SpeechDaemon.process_request
Callers == {"a", "b"}

\* queue.Queue() twice (46-47), processor thread started, no call made
ApiInit ==
    api = [processing_queue |-> <<>>, result_queue |-> <<>>,
           worker |-> [pc |-> "get", item |-> <<>>],
           calls |-> [c \in Callers |-> [pc |-> "idle", sub |-> 0, got |-> <<>>]],
           submitted |-> 0]

\* self.calibrated_threshold = 0.2  # Default fallback
DefaultThreshold == 2000

\* SessionSpeechDaemon.__init__ before collect_baseline_rms: baseline_rms
\* None (an empty tuple here), speech_contrast_data [], threshold 0.2
CalibInit ==
    calib = [pc |-> "collect", baseline_rms |-> <<>>,
             calibrated_threshold |-> DefaultThreshold,
             speech_contrast_data |-> <<>>, clips |-> 0, speech_rms |-> 0,
             accepted |-> <<>>, vad |-> <<>>]

\* neither text function has been called
TextInit ==
    textfn = [pc |-> "idle", text |-> <<>>, confidence |-> 0,
              stdout |-> <<>>, corrected |-> <<>>]

ModuleInit == EngineInit /\ RouteInit /\ DenoiseInit /\ ClientInit /\ ApiInit /\ CalibInit /\ TextInit

\* ------------------------------------------------------------------- Init
\* The state after SessionSpeechDaemon.__init__ returned at time 0: marker
\* files written, monitor thread started, first status written.
Constructed ==
    /\ now = 0
    /\ model = "None"
    /\ is_model_loaded = FALSE
    /\ last_activity = 0
    /\ processing = FALSE
    /\ shutdown_requested = FALSE
    /\ requestDir = {}
    /\ reqKind = [r \in ReqIds |-> "none"]
    /\ responses = [r \in ReqIds |-> <<>>]
    /\ statusFile = <<StatusRecord(FALSE, 0, Self)>>
    /\ pidFile = Self
    /\ sessionFile = TRUE
    /\ tpc = [t \in {"main", "monitor", "sig"} |->
                 IF t = "main" THEN "loop"
                 ELSE IF t = "monitor" THEN "m_sample" ELSE "none"]
    /\ request_files = {}
    /\ cur = 0
    /\ results = <<>>
    /\ inactive_time = 0
    /\ wakeAt = 0
    /\ typed = {}
    /\ nextId = 1
    /\ handling = {}
    /\ failCount = [r \in ReqIds |-> 0]
    /\ err = "none"
    /\ transcribed = {}
    /\ spc = [p \in Procs |-> IF p = Self THEN "running" ELSE "off"]
    /\ pidRead = [p \in Procs |-> "none"]
    /\ verdict = [p \in Procs |-> "none"]
    /\ CoordInit
    /\ ModuleInit

Init == Constructed /\ countTo = 1

\* The process is gone once run() has returned ("done": main() ends, the
\* monitor is a daemon thread), once sys.exit ran in signal_handler
\* ("exited"), or once an exception has escaped run() ("crashed").
Alive == tpc["main"] \notin {"done", "exited", "crashed"}

\* ------------------------------------------------------------ environment
Tick(dt) ==
    /\ now < MaxTime
    /\ now' = now + dt
    /\ UNCHANGED <<moduleVars, startVars, coordVars, daemonVars, fileVars, tpc, localVars, ghostVars>>

\* A client writes a request file under a fresh identifier.  The daemon
\* sees the request directory only in run()'s glob, so a file written at
\* any other moment acts as one written just before the next glob: the
\* model lets clients write while the loop is between two polls.
Submit(k) ==
    /\ tpc["main"] = "loop"
    /\ nextId \in ReqIds
    /\ requestDir' = requestDir \cup {nextId}
    /\ reqKind' = [reqKind EXCEPT ![nextId] = k]
    /\ nextId' = nextId + 1
    /\ UNCHANGED <<moduleVars, startVars, coordVars, now, daemonVars, responses, statusFile, pidFile, sessionFile,
                   tpc, localVars, handling, failCount, countTo, transcribed, err>>

\* ------------------------------------------------- helpers of the handlers
\* update_status: overwrite the status file with the current fields
WriteStatus(proc) ==
    statusFile' = <<StatusRecord(proc, now, Self)>>

\* faulty variant of LogFailure: the exception is not caught and ends the
\* main thread
LogFailureMut(r) ==
    /\ failCount' = [failCount EXCEPT ![r] = IF @ < countTo THEN @ + 1 ELSE @]
    /\ handling' = handling \ {r}
    /\ cur' = 0
    /\ results' = <<>>
    /\ err' = "none"
    /\ Goto("main", "done")

\* process_request's "except Exception": the failure of request r is
\* logged, process_request returns to run()'s for loop
LogFailure(r) ==
    /\ failCount' = [failCount EXCEPT ![r] = IF @ < countTo THEN @ + 1 ELSE @]
    /\ handling' = handling \ {r}
    /\ cur' = 0
    /\ results' = <<>>
    /\ err' = "none"
    /\ Goto("main", "for")

\* the response dictionary process_request builds
Response(r) ==
    IF reqKind[r] = "ping"
    THEN [id |-> r, type |-> "pong"]
    ELSE [id |-> r, results |-> results]

\* ------------------------------------------------------- content filter
\* A clip is its duration in milliseconds and its RMS level in units of
\* 0.0001: the thresholds 0.15 s and 0.0005 become 150 and 5.
MinDurationMs == 150
MinRms == 5
ClipDurations == {149, 150}
ClipLevels == {0, 4, 5}
Clips == [duration : ClipDurations, rms_level : ClipLevels]

\* the clips a request of kind k carries: a silent one is too short or too
\* quiet, one with speech is neither
ClipsOf(k) ==
    IF k = "silent"
    THEN {c \in Clips : c.duration < MinDurationMs \/ c.rms_level < MinRms}
    ELSE {c \in Clips : ~(c.duration < MinDurationMs \/ c.rms_level < MinRms)}

\* faulty variant of CheckAudioContent: the level test is missing
CheckAudioContentMut(clip) ==
    IF clip.duration < MinDurationMs THEN FALSE ELSE TRUE

\* SessionSpeechDaemon.check_audio_content
CheckAudioContent(clip) ==
    IF clip.duration < MinDurationMs
    THEN FALSE
    ELSE IF clip.rms_level < MinRms
         THEN FALSE
         ELSE TRUE

\* AudioPreprocessor.analyze_audio_content: the AudioAnalysis it returns
AnalyzeAudioContent(clip) ==
    [duration |-> clip.duration,
     rms_level |-> clip.rms_level,
     has_content |-> clip.duration >= MinDurationMs /\ clip.rms_level >= MinRms]

\* AudioPreprocessor.process_audio_file: the ProcessedAudio it returns; the
\* noise filter runs on clips with content only
ProcessAudioFile(clip) ==
    LET analysis == AnalyzeAudioContent(clip)
    IN  [analysis |-> analysis,
         preprocessing_applied |-> analysis.has_content]

\* ------------------------------------------------------------------ run()
\* time.sleep(0.1); while not self.shutdown_requested:
\*     request_files = list(self.request_dir.glob("*.json"))
\* and, once the loop is left, the call of shutdown_session
RunLoop ==
    /\ tpc["main"] = "loop"
    /\ IF shutdown_requested
       THEN Goto("main", "sd_check") /\ UNCHANGED request_files
       ELSE Goto("main", "for") /\ request_files' = requestDir
    /\ UNCHANGED <<moduleVars, startVars, coordVars, now, daemonVars, fileVars, cur, results, inactive_time, wakeAt,
                   typed, ghostVars>>

\* faulty variant of ProcessRequestOpen: a ping is handed to
\* transcribe_audio like any other request
ProcessRequestOpenMut(r) ==
    IF r \notin requestDir \/ reqKind[r] = "malformed"
    THEN LogFailure(r)
    ELSE /\ cur' = r
         /\ handling' = handling \cup {r}
         /\ Goto("main", "t_activity")
         /\ UNCHANGED <<results, failCount, err>>

\* process_request entry: open + json.load + request.get.  A file that is
\* gone or is not JSON raises; a ping goes straight to its response.
ProcessRequestOpen(r) ==
    IF r \notin requestDir \/ reqKind[r] = "malformed"
    THEN LogFailure(r)
    ELSE /\ cur' = r
         /\ handling' = handling \cup {r}
         /\ Goto("main", IF reqKind[r] = "ping" THEN "write" ELSE "t_activity")
         /\ UNCHANGED <<results, failCount, err>>

\* faulty variant of RunFor: the for loop does not look at the shutdown flag
RunForNoBreakMut ==
    /\ tpc["main"] = "for"
    /\ \/ /\ request_files = {}
          /\ Goto("main", "loop")
          /\ UNCHANGED <<request_files, cur, results, handling, failCount, err>>
       \/ \E r \in request_files :
             /\ request_files' = request_files \ {r}
             /\ ProcessRequestOpen(r)
    /\ UNCHANGED <<moduleVars, startVars, coordVars, now, daemonVars, fileVars, inactive_time, wakeAt, typed,
                   nextId, countTo, transcribed>>

\* faulty variant of RunFor: the loop takes the next request file without
\* waiting for process_request to return
RunForMut ==
    /\ tpc["main"] \in {"for", "unlink"}
    /\ ~shutdown_requested
    /\ \E r \in request_files :
          /\ request_files' = request_files \ {r}
          /\ r \in requestDir /\ reqKind[r] # "malformed"
          /\ ProcessRequestOpen(r)
    /\ UNCHANGED <<moduleVars, startVars, coordVars, now, daemonVars, fileVars, inactive_time, wakeAt, typed,
                   nextId, countTo, transcribed>>

\* for request_file in request_files:
\*     if self.shutdown_requested: break
\*     self.process_request(request_file)
\* glob's order is the file system's.
RunFor ==
    /\ tpc["main"] = "for"
    /\ \/ /\ request_files = {} \/ shutdown_requested
          /\ request_files' = {}
          /\ Goto("main", "loop")
          /\ UNCHANGED <<cur, results, handling, failCount, err>>
       \/ /\ ~shutdown_requested
          /\ \E r \in request_files :
                /\ request_files' = request_files \ {r}
                /\ ProcessRequestOpen(r)
    /\ UNCHANGED <<moduleVars, startVars, coordVars, now, daemonVars, fileVars, inactive_time, wakeAt, typed,
                   nextId, countTo, transcribed>>

\* -------------------------------------------------------- process_request
\* response_file written with json.dump, then the results typed with
\* pyautogui.typewrite (a typing failure is logged and skipped); an I/O
\* error of the write raises
ProcessRequestWrite ==
    /\ tpc["main"] = "write"
    /\ \/ /\ responses' = [responses EXCEPT ![cur] = <<Response(cur)>>]
          /\ \/ typed' = IF reqKind[cur] # "ping" /\ results # <<>>
                         THEN typed \cup {cur} ELSE typed
             \/ /\ reqKind[cur] # "ping" /\ results # <<>>
                /\ UNCHANGED typed
          /\ Goto("main", "unlink")
          /\ UNCHANGED <<cur, results, handling, failCount, err>>
       \/ /\ LogFailure(cur)
          /\ UNCHANGED <<responses, typed>>
    /\ UNCHANGED <<moduleVars, startVars, coordVars, now, daemonVars, requestDir, reqKind, statusFile, pidFile,
                   sessionFile, request_files, inactive_time, wakeAt,
                   nextId, countTo, transcribed>>

\* request_file.unlink(); it raises when the file is gone
ProcessRequestUnlink ==
    /\ tpc["main"] = "unlink"
    /\ IF cur \in requestDir
       THEN /\ requestDir' = requestDir \ {cur}
            /\ reqKind' = [reqKind EXCEPT ![cur] = "none"]
            /\ handling' = handling \ {cur}
            /\ cur' = 0
            /\ results' = <<>>
            /\ err' = "none"
            /\ Goto("main", "for")
            /\ UNCHANGED failCount
       ELSE /\ LogFailure(cur)
            /\ UNCHANGED <<requestDir, reqKind>>
    /\ transcribed' = transcribed \ {cur}
    /\ UNCHANGED <<moduleVars, startVars, coordVars, now, daemonVars, responses, statusFile, pidFile,
                   sessionFile, request_files, inactive_time, wakeAt, typed,
                   nextId, countTo>>

\* ------------------------------------------------------- transcribe_audio
\* self.update_activity(): last_activity = time.time() under activity_lock
TranscribeUpdateActivity ==
    /\ tpc["main"] = "t_activity"
    /\ last_activity' = now
    /\ Goto("main", "t_processing")
    /\ UNCHANGED <<moduleVars, startVars, coordVars, now, model, is_model_loaded, processing, shutdown_requested,
                   fileVars, localVars, ghostVars>>

\* self.processing = True; self.update_status(); then sf.read (raises on a
\* missing file: caught, return []) and the content pre-filter
\* check_audio_content (silent clip: return [])
TranscribeSetProcessing ==
    /\ tpc["main"] = "t_processing"
    /\ processing' = TRUE
    /\ WriteStatus(TRUE)
    /\ IF reqKind[cur] = "missing"
       THEN /\ err' = "audio"
            /\ Goto("main", "t_finally")
       ELSE \E clip \in ClipsOf(reqKind[cur]) :
               IF CheckAudioContent(clip)
               THEN /\ Goto("main", "t_load")
                    /\ UNCHANGED err
               ELSE /\ err' = "none"
                    /\ Goto("main", "t_finally")
    /\ UNCHANGED <<moduleVars, startVars, coordVars, now, model, is_model_loaded, last_activity, shutdown_requested,
                   requestDir, reqKind, responses, pidFile, sessionFile, localVars,
                   nextId, handling, failCount, countTo, transcribed>>

\* faulty variant of LoadModelOnDemand: the cached model is not looked at,
\* every call constructs a model
LoadModelOnDemandMut ==
    /\ tpc["main"] = "t_load"
    /\ \/ /\ model' = "Model"
          /\ Goto("main", "t_loaded")
       \/ /\ ~is_model_loaded
          /\ Goto("main", "t_finally")
          /\ UNCHANGED model
    /\ UNCHANGED <<moduleVars, startVars, coordVars, now, is_model_loaded, last_activity, processing, shutdown_requested,
                   fileVars, localVars, ghostVars>>

\* load_model_on_demand up to the assignment self.model = WhisperModel(...);
\* a failed load is caught there, returns False, and transcribe_audio
\* returns []
LoadModelOnDemand ==
    /\ tpc["main"] = "t_load"
    /\ \/ /\ is_model_loaded
          /\ Goto("main", "t_transcribe")
          /\ UNCHANGED model
       \/ /\ ~is_model_loaded
          /\ model' = "Model"
          /\ Goto("main", "t_loaded")
       \/ /\ ~is_model_loaded
          /\ Goto("main", "t_finally")
          /\ UNCHANGED model
    /\ UNCHANGED <<moduleVars, startVars, coordVars, now, is_model_loaded, last_activity, processing, shutdown_requested,
                   fileVars, localVars, ghostVars>>

\* load_model_on_demand: self.is_model_loaded = True; return True
LoadModelSetFlag ==
    /\ tpc["main"] = "t_loaded"
    /\ is_model_loaded' = TRUE
    /\ Goto("main", "t_transcribe")
    /\ UNCHANGED <<moduleVars, startVars, coordVars, now, model, last_activity, processing, shutdown_requested,
                   fileVars, localVars, ghostVars>>

\* segments, info = self.model.transcribe(...): an attribute that is None
\* or deleted raises AttributeError, caught by transcribe_audio: return []
TranscribeStart ==
    /\ tpc["main"] = "t_transcribe"
    /\ IF model = "Model"
       THEN /\ Goto("main", "t_segments")
            /\ UNCHANGED err
       ELSE /\ err' = "inference"
            /\ Goto("main", "t_finally")
    /\ UNCHANGED <<moduleVars, startVars, coordVars, now, daemonVars, fileVars, localVars, nextId, handling,
                   failCount, countTo, transcribed>>

\* for seg in segments: collect the non-empty texts (the inference runs
\* here); an exception of the model is caught: return []
TranscribeSegments ==
    /\ tpc["main"] = "t_segments"
    /\ \/ /\ results' = <<"text">>
          /\ UNCHANGED err
       \/ /\ results' = <<>>
          /\ UNCHANGED err
       \/ /\ results' = <<>>
          /\ err' = "inference"
    /\ transcribed' = transcribed \cup {cur}
    /\ Goto("main", "t_finally")
    /\ UNCHANGED <<moduleVars, startVars, coordVars, now, daemonVars, fileVars, request_files, cur, inactive_time,
                   wakeAt, typed, nextId, handling, failCount, countTo>>

\* faulty variant of TranscribeFinally: the flag is reset at the end of the
\* try block instead of in a finally clause, so an exit through the except
\* clause leaves it set
TranscribeFinallyMut ==
    /\ tpc["main"] = "t_finally"
    /\ IF err = "none"
       THEN /\ processing' = FALSE
            /\ WriteStatus(FALSE)
       ELSE UNCHANGED <<processing, statusFile>>
    /\ Goto("main", "write")
    /\ UNCHANGED <<moduleVars, startVars, coordVars, now, model, is_model_loaded, last_activity, shutdown_requested,
                   requestDir, reqKind, responses, pidFile, sessionFile, localVars,
                   ghostVars>>

\* finally: self.processing = False; self.update_status()
TranscribeFinally ==
    /\ tpc["main"] = "t_finally"
    /\ processing' = FALSE
    /\ WriteStatus(FALSE)
    /\ Goto("main", "write")
    /\ UNCHANGED <<moduleVars, startVars, coordVars, now, model, is_model_loaded, last_activity, shutdown_requested,
                   requestDir, reqKind, responses, pidFile, sessionFile, localVars,
                   ghostVars>>

\* ------------------------------------------------- monitor_session_timeout
\* with self.activity_lock: inactive_time = time.time() - self.last_activity
MonitorSample ==
    /\ Alive
    /\ tpc["monitor"] = "m_sample"
    /\ inactive_time' = now - last_activity
    /\ Goto("monitor", "m_check")
    /\ UNCHANGED <<moduleVars, startVars, coordVars, now, daemonVars, fileVars, request_files, cur, results, wakeAt,
                   typed, ghostVars>>

\* faulty variant of MonitorCheck: an inactive time equal to the timeout
\* already counts as expired
MonitorCheckMut ==
    /\ Alive
    /\ tpc["monitor"] = "m_check"
    /\ inactive_time' = 0
    /\ IF inactive_time >= SessionTimeout /\ is_model_loaded
       THEN /\ Goto("monitor", "sd_check")
            /\ UNCHANGED wakeAt
       ELSE /\ wakeAt' = now + MonitorInterval
            /\ Goto("monitor", "m_sleep")
    /\ UNCHANGED <<moduleVars, startVars, coordVars, now, daemonVars, fileVars, request_files, cur, results,
                   typed, ghostVars>>

\* if inactive_time > self.session_timeout and self.is_model_loaded:
\*     self.shutdown_session(); break
\* time.sleep(30)
MonitorCheck ==
    /\ Alive
    /\ tpc["monitor"] = "m_check"
    /\ inactive_time' = 0
    /\ IF inactive_time > SessionTimeout /\ is_model_loaded
       THEN /\ Goto("monitor", "sd_check")
            /\ UNCHANGED wakeAt
       ELSE /\ wakeAt' = now + MonitorInterval
            /\ Goto("monitor", "m_sleep")
    /\ UNCHANGED <<moduleVars, startVars, coordVars, now, daemonVars, fileVars, request_files, cur, results,
                   typed, ghostVars>>

\* time.sleep returns; while not self.shutdown_requested
MonitorWake ==
    /\ Alive
    /\ tpc["monitor"] = "m_sleep"
    /\ now >= wakeAt
    /\ wakeAt' = 0
    /\ Goto("monitor", IF shutdown_requested THEN "m_done" ELSE "m_sample")
    /\ UNCHANGED <<moduleVars, startVars, coordVars, now, daemonVars, fileVars, request_files, cur, results,
                   inactive_time, typed, ghostVars>>

\* -------------------------------------------------------- shutdown_session
\* run by the monitor thread (idle timeout) and by the main thread (run()'s
\* last statement, and signal_handler).  An exception escaping it ends the
\* main thread or, raised in signal_handler, reaches the code the signal
\* interrupted; in the monitor it is caught by the loop (time.sleep(60),
\* next iteration).
SdReturn(t) ==
    IF t = "main"
    THEN IF tpc["sig"] \in {"none", "swallowed"} THEN "done" ELSE "sig_exit"
    ELSE "m_done"

SdRaise(t) ==
    IF t = "main"
    THEN /\ Goto(t, IF tpc["sig"] \in {"none", "swallowed"}
                     THEN "crashed" ELSE "sig_raise")
         /\ UNCHANGED wakeAt
    ELSE Goto(t, "m_sleep") /\ wakeAt' = now + MonitorErrorSleep

\* if self.is_model_loaded and self.model: del self.model
SdDel(t) ==
    /\ Alive
    /\ tpc[t] = "sd_check"
    /\ IF is_model_loaded /\ model = "Deleted"
       THEN SdRaise(t) /\ UNCHANGED model
       ELSE IF is_model_loaded /\ model = "Model"
            THEN /\ model' = "Deleted"
                 /\ Goto(t, "sd_none")
                 /\ UNCHANGED wakeAt
            ELSE /\ Goto(t, "sd_files")
                 /\ UNCHANGED <<model, wakeAt>>
    /\ UNCHANGED <<moduleVars, startVars, coordVars, now, is_model_loaded, last_activity, processing,
                   shutdown_requested, fileVars, request_files, cur, results,
                   inactive_time, typed, ghostVars>>

\* faulty variant of SdNone: the attribute is left deleted
SdNoneMut(t) ==
    /\ Alive
    /\ tpc[t] = "sd_none"
    /\ Goto(t, "sd_flag")
    /\ UNCHANGED <<moduleVars, startVars, coordVars, now, daemonVars, fileVars, localVars, ghostVars>>

\* self.model = None
SdNone(t) ==
    /\ Alive
    /\ tpc[t] = "sd_none"
    /\ model' = "None"
    /\ Goto(t, "sd_flag")
    /\ UNCHANGED <<moduleVars, startVars, coordVars, now, is_model_loaded, last_activity, processing,
                   shutdown_requested, fileVars, localVars, ghostVars>>

\* self.is_model_loaded = False
SdFlag(t) ==
    /\ Alive
    /\ tpc[t] = "sd_flag"
    /\ is_model_loaded' = FALSE
    /\ Goto(t, "sd_files")
    /\ UNCHANGED <<moduleVars, startVars, coordVars, now, model, last_activity, processing, shutdown_requested,
                   fileVars, localVars, ghostVars>>

\* the PID file, the session marker and the status file are unlinked
SdFiles(t) ==
    /\ Alive
    /\ tpc[t] = "sd_files"
    /\ pidFile' = "absent"
    /\ sessionFile' = FALSE
    /\ statusFile' = <<>>
    /\ Goto(t, "sd_requested")
    /\ UNCHANGED <<moduleVars, startVars, coordVars, now, daemonVars, requestDir, reqKind, responses, localVars,
                   ghostVars>>

\* self.shutdown_requested = True
SdRequested(t) ==
    /\ Alive
    /\ tpc[t] = "sd_requested"
    /\ shutdown_requested' = TRUE
    /\ Goto(t, SdReturn(t))
    /\ UNCHANGED <<moduleVars, startVars, coordVars, now, model, is_model_loaded, last_activity, processing,
                   fileVars, localVars, ghostVars>>

ShutdownSession(t) ==
    \/ SdDel(t)
    \/ SdNone(t)
    \/ SdFlag(t)
    \/ SdFiles(t)
    \/ SdRequested(t)

\* The positions whose step is the body of a "with self.activity_lock:"
\* block: update_activity's assignment and the monitor's sample.  No other
\* statement of the daemon takes the lock.
LockedSteps == {"t_activity", "m_sample"}

\* thread t takes a step with the activity lock held
StepsUnderLock(t) == tpc[t] \in LockedSteps /\ tpc'[t] # tpc[t]

\* ------------------------------------------------------------------- Spec
MainThread ==
    \/ RunLoop
    \/ RunFor
    \/ TranscribeUpdateActivity
    \/ TranscribeSetProcessing
    \/ LoadModelOnDemand
    \/ LoadModelSetFlag
    \/ TranscribeStart
    \/ TranscribeSegments
    \/ TranscribeFinally
    \/ ProcessRequestWrite
    \/ ProcessRequestUnlink
    \/ ShutdownSession("main")

MonitorThread ==
    \/ MonitorSample
    \/ MonitorCheck
    \/ MonitorWake
    \/ ShutdownSession("monitor")

Next ==
    \/ Tick(TickStep)
    \/ \E k \in Kinds : Submit(k)
    \/ MainThread
    \/ MonitorThread

Spec == Init /\ [][Next]_vars

\* The same daemon with failures counted beyond the spec's failure bound.
InitBreaker == Constructed /\ countTo = FailureBound + 1

SpecBreaker == InitBreaker /\ [][Next]_vars

\* ------------------------------------------------------------- SpecSignal
\* The daemon of Spec serving one request, with SIGINT or SIGTERM delivered
\* once at any point of the main thread: signal_handler runs
\* daemon.shutdown_session() on the main thread, between two of its
\* statements, and then sys.exit(0).
SubmitFirst(k) ==
    /\ nextId = 1
    /\ Submit(k)

\* positions whose statement lies in transcribe_audio's try block
TranscribeTry == {"t_load", "t_loaded", "t_transcribe", "t_segments"}

\* signal_handler: if daemon: daemon.shutdown_session()
Signal ==
    /\ Alive
    /\ tpc["sig"] = "none"
    /\ tpc' = [tpc EXCEPT !["sig"] = tpc["main"], !["main"] = "sd_check"]
    /\ UNCHANGED <<moduleVars, now, daemonVars, fileVars, localVars, ghostVars, startVars,
                   coordVars>>

\* signal_handler: sys.exit(0).  SystemExit unwinds the main thread; it is
\* no Exception, so only transcribe_audio's finally clause runs on the way:
\* self.processing = False; self.update_status()
SignalExit ==
    /\ tpc["main"] = "sig_exit"
    /\ IF tpc["sig"] \in TranscribeTry \cup {"t_finally"}
       THEN processing' = FALSE /\ WriteStatus(FALSE)
       ELSE UNCHANGED <<processing, statusFile>>
    /\ Goto("main", "exited")
    /\ UNCHANGED <<moduleVars, now, model, is_model_loaded, last_activity, shutdown_requested,
                   requestDir, reqKind, responses, pidFile, sessionFile, localVars,
                   ghostVars, startVars, coordVars>>

\* where an exception raised in signal_handler is caught: transcribe_audio's
\* except (return []), its finally on the way to process_request's except,
\* process_request's except, run()'s except (time.sleep(1), next poll); out
\* of run()'s last statement it escapes
Handler(pc) ==
    IF pc \in TranscribeTry THEN "t_finally"
    ELSE IF pc = "t_finally" THEN "x_finally"
    ELSE IF pc \in {"t_activity", "t_processing", "write", "unlink"} THEN "x_except"
    ELSE IF pc \in {"loop", "for"} THEN "loop"
    ELSE "crashed"

\* shutdown_session raised in signal_handler (sys.exit is not reached): the
\* exception surfaces where the main thread was interrupted
SignalRaise ==
    /\ tpc["main"] = "sig_raise"
    /\ tpc' = [tpc EXCEPT !["sig"] = "swallowed", !["main"] = Handler(tpc["sig"])]
    /\ results' = IF tpc["sig"] \in TranscribeTry THEN <<>> ELSE results
    /\ request_files' = IF tpc["sig"] \in {"loop", "for"} THEN {} ELSE request_files
    /\ UNCHANGED <<moduleVars, now, daemonVars, fileVars, cur, inactive_time, wakeAt, typed,
                   ghostVars, startVars, coordVars>>

\* transcribe_audio's finally clause with an exception in flight
TranscribeFinallyRaise ==
    /\ tpc["main"] = "x_finally"
    /\ processing' = FALSE
    /\ WriteStatus(FALSE)
    /\ Goto("main", "x_except")
    /\ UNCHANGED <<moduleVars, now, model, is_model_loaded, last_activity, shutdown_requested,
                   requestDir, reqKind, responses, pidFile, sessionFile, localVars,
                   ghostVars, startVars, coordVars>>

\* process_request's except clause for an exception raised in
\* signal_handler
ProcessRequestExcept ==
    /\ tpc["main"] = "x_except"
    /\ LogFailure(cur)
    /\ UNCHANGED <<moduleVars, now, daemonVars, fileVars, request_files, inactive_time, wakeAt,
                   typed, nextId, countTo, transcribed, startVars, coordVars>>

SignalHandler ==
    \/ Signal
    \/ SignalExit
    \/ SignalRaise
    \/ TranscribeFinallyRaise
    \/ ProcessRequestExcept

NextSignal ==
    \/ Tick(TickStep)
    \/ \E k \in Kinds : SubmitFirst(k)
    \/ MainThread
    \/ MonitorThread
    \/ SignalHandler

SpecSignal == Init /\ [][NextSignal]_vars

\* --------------------------------------------------------------- SpecQuit
\* The daemon of Spec with its main thread scheduled again and again: a
\* thread that can take a step is not held up for ever.  Clients send
\* requests with speech.
QuitKinds == {"speech"}

NextQuit ==
    \/ Tick(TickStep)
    \/ \E k \in QuitKinds : Submit(k)
    \/ MainThread
    \/ MonitorThread

SpecQuit == Init /\ [][NextQuit]_vars /\ WF_vars(MainThread)

\* -------------------------------------------------------------- SpecStart
\* Starts of the daemon program: every process of Procs runs main() once,
\* that is check_existing_daemon and, unless it answers True, the
\* constructor of SessionSpeechDaemon and run().  Every file system call is
\* one step; the processes interleave between them.  A running daemon is
\* kept to what it does to the three marker files.  The processes the PID
\* file can name belong to the user who starts the daemon, so os.kill(pid, 0)
\* either succeeds or raises ProcessLookupError.
sessionVars == <<daemonVars, requestDir, reqKind, responses, tpc, localVars,
                 ghostVars>>

StartGoto(p, l) == spc' = [spc EXCEPT ![p] = l]

\* os.kill(pid, 0) succeeds: pid is a process that has started and not ended
IsAlive(pid) == pid \in Procs /\ spc[pid] \notin {"off", "exited", "stopped"}

\* time.time() - status.get('timestamp', 0) < 60
StatusFresh == statusFile # <<>> /\ now - statusFile[1].timestamp < RecencyWindow

\* Before any start: no marker files, or the files a killed daemon left
\* behind (a PID file that is empty or names the dead process, a status file
\* written at time 0).
InitStart ==
    /\ now = 0
    /\ model = "None"
    /\ is_model_loaded = FALSE
    /\ last_activity = 0
    /\ processing = FALSE
    /\ shutdown_requested = FALSE
    /\ requestDir = {}
    /\ reqKind = [r \in ReqIds |-> "none"]
    /\ responses = [r \in ReqIds |-> <<>>]
    /\ statusFile \in {<<>>, <<StatusRecord(FALSE, 0, DeadPid)>>}
    /\ pidFile \in {"absent", "empty", DeadPid}
    /\ sessionFile = (pidFile = DeadPid)
    /\ tpc = [t \in {"main", "monitor", "sig"} |-> "done"]
    /\ request_files = {}
    /\ cur = 0
    /\ results = <<>>
    /\ inactive_time = 0
    /\ wakeAt = 0
    /\ typed = {}
    /\ nextId = 1
    /\ handling = {}
    /\ failCount = [r \in ReqIds |-> 0]
    /\ countTo = 1
    /\ err = "none"
    /\ transcribed = {}
    /\ spc = [p \in Procs |-> "off"]
    /\ pidRead = [p \in Procs |-> "none"]
    /\ verdict = [p \in Procs |-> "none"]
    /\ CoordInit
    /\ ModuleInit

\* the program is started: main() calls check_existing_daemon
Launch(p) ==
    /\ spc[p] = "off"
    /\ StartGoto(p, "c_exists")
    /\ UNCHANGED <<moduleVars, now, sessionVars, coordVars, statusFile, pidFile, sessionFile, pidRead,
                   verdict>>

\* if not pid_file.exists(): return False
CheckExists(p) ==
    /\ spc[p] = "c_exists"
    /\ IF pidFile = "absent"
       THEN /\ StartGoto(p, "s_pid_open")
            /\ verdict' = [verdict EXCEPT ![p] = "no marker"]
       ELSE /\ StartGoto(p, "c_read")
            /\ UNCHANGED verdict
    /\ UNCHANGED <<moduleVars, now, sessionVars, coordVars, statusFile, pidFile, sessionFile, pidRead>>

\* faulty variant of CheckStatus: the status file is not consulted
CheckStatusMut(p) ==
    /\ spc[p] = "c_status"
    /\ StartGoto(p, "c_unlink")
    /\ verdict' = [verdict EXCEPT ![p] = "stale status"]
    /\ UNCHANGED <<moduleVars, now, sessionVars, coordVars, statusFile, pidFile, sessionFile, pidRead>>

\* faulty variant of CheckUnlink: False is returned with the marker left
\* in place
CheckUnlinkMut(p) ==
    /\ spc[p] = "c_unlink"
    /\ StartGoto(p, "s_pid_open")
    /\ UNCHANGED <<moduleVars, now, sessionVars, coordVars, statusFile, pidFile, sessionFile, pidRead,
                   verdict>>

\* with open(pid_file, 'r') as f: pid = int(f.read().strip())
\* FileNotFoundError when the file went away, ValueError when it holds no
\* number
CheckRead(p) ==
    /\ spc[p] = "c_read"
    /\ IF pidFile \in {"absent", "empty"}
       THEN /\ StartGoto(p, "c_unlink")
            /\ verdict' = [verdict EXCEPT ![p] =
                              IF pidFile = "absent" THEN "no marker" ELSE "unparseable"]
            /\ UNCHANGED pidRead
       ELSE /\ pidRead' = [pidRead EXCEPT ![p] = pidFile]
            /\ StartGoto(p, "c_kill")
            /\ UNCHANGED verdict
    /\ UNCHANGED <<moduleVars, now, sessionVars, coordVars, statusFile, pidFile, sessionFile>>

\* os.kill(pid, 0): ProcessLookupError when no such process exists
CheckKill(p) ==
    /\ spc[p] = "c_kill"
    /\ IF IsAlive(pidRead[p])
       THEN /\ StartGoto(p, "c_status")
            /\ UNCHANGED verdict
       ELSE /\ StartGoto(p, "c_unlink")
            /\ verdict' = [verdict EXCEPT ![p] = "dead process"]
    /\ UNCHANGED <<moduleVars, now, sessionVars, coordVars, statusFile, pidFile, sessionFile, pidRead>>

\* if status_file.exists(): status = json.load(f)
\*     if time.time() - status.get('timestamp', 0) < 60: return True
\* and in main(): if check_existing_daemon(): sys.exit(0)
CheckStatus(p) ==
    /\ spc[p] = "c_status"
    /\ IF StatusFresh
       THEN /\ StartGoto(p, "exited")
            /\ verdict' = [verdict EXCEPT ![p] = "responsive"]
       ELSE /\ StartGoto(p, "c_unlink")
            /\ verdict' = [verdict EXCEPT ![p] =
                              IF statusFile = <<>> THEN "no status" ELSE "stale status"]
    /\ UNCHANGED <<moduleVars, now, sessionVars, coordVars, statusFile, pidFile, sessionFile, pidRead>>

\* pid_file.unlink(); return False -- on the unresponsive path and in the
\* except clause alike (a file already gone is passed over); main() goes on
\* to the constructor
CheckUnlink(p) ==
    /\ spc[p] = "c_unlink"
    /\ pidFile' = "absent"
    /\ StartGoto(p, "s_pid_open")
    /\ UNCHANGED <<moduleVars, now, sessionVars, coordVars, statusFile, sessionFile, pidRead, verdict>>

CheckExistingDaemon(p) ==
    \/ CheckExists(p)
    \/ CheckRead(p)
    \/ CheckKill(p)
    \/ CheckStatus(p)
    \/ CheckUnlink(p)


\* setup_directories: open(self.pid_file, 'w') truncates the PID file
SetupPidOpen(p) ==
    /\ spc[p] = "s_pid_open"
    /\ pidFile' = "empty"
    /\ StartGoto(p, "s_pid_write")
    /\ UNCHANGED <<moduleVars, now, sessionVars, coordVars, statusFile, sessionFile, pidRead, verdict>>

\* f.write(str(os.getpid())), flushed when the with block closes the file
SetupPidWrite(p) ==
    /\ spc[p] = "s_pid_write"
    /\ pidFile' = p
    /\ StartGoto(p, "s_session")
    /\ UNCHANGED <<moduleVars, now, sessionVars, coordVars, statusFile, sessionFile, pidRead, verdict>>

\* the session marker is written; initialize_cuda_context and
\* collect_baseline_rms (a 3 s recording) follow
SetupSession(p) ==
    /\ spc[p] = "s_session"
    /\ sessionFile' = TRUE
    /\ StartGoto(p, "i_status")
    /\ UNCHANGED <<moduleVars, now, sessionVars, coordVars, statusFile, pidFile, pidRead, verdict>>

\* __init__: the monitor thread is started, self.update_status() writes the
\* first status file; main() calls run()
InitStatus(p) ==
    /\ spc[p] = "i_status"
    /\ statusFile' = <<StatusRecord(FALSE, now, p)>>
    /\ StartGoto(p, "running")
    /\ UNCHANGED <<moduleVars, now, sessionVars, coordVars, pidFile, sessionFile, pidRead, verdict>>

\* a running daemon handles a transcribe request: transcribe_audio calls
\* update_status on entry and in its finally clause
ServeRequest(p) ==
    /\ spc[p] = "running"
    /\ statusFile' = <<StatusRecord(FALSE, now, p)>>
    /\ UNCHANGED <<moduleVars, now, sessionVars, coordVars, pidFile, sessionFile, spc, pidRead, verdict>>

\* a running daemon shuts its session down (idle timeout, SIGINT or
\* SIGTERM): shutdown_session unlinks the three marker files, the process
\* ends
StopDaemon(p) ==
    /\ spc[p] = "running"
    /\ pidFile' = "absent"
    /\ sessionFile' = FALSE
    /\ statusFile' = <<>>
    /\ StartGoto(p, "stopped")
    /\ UNCHANGED <<moduleVars, now, sessionVars, coordVars, pidRead, verdict>>

Constructor(p) ==
    \/ SetupPidOpen(p)
    \/ SetupPidWrite(p)
    \/ SetupSession(p)
    \/ InitStatus(p)

NextStart ==
    \/ Tick(StartTick)
    \/ \E p \in Procs :
          \/ Launch(p)
          \/ CheckExistingDaemon(p)
          \/ Constructor(p)
          \/ ServeRequest(p)
          \/ StopDaemon(p)

SpecStart == InitStart /\ [][NextStart]_vars

\* daemons that hold a constructed SessionSpeechDaemon and poll the request
\* directory
Polling == {p \in Procs : spc[p] = "running"}

\* --------------------------------------------------------------- SpecIdle
\* Inactivity monitoring on a clock of StartTick-second steps, so that an
\* inactive time equal to the timeout occurs: SessionCoordinator with its
\* SessionTimeoutMonitor (session_coordinator.py), and next to it the
\* daemon's monitor_session_timeout with the main thread reduced to whole
\* calls of transcribe_audio.  Both are given SessionTimeout as their
\* session_timeout.

\* SessionCoordinator.get_inactive_time: time.time() - self.last_activity
\* under activity_lock
GetInactiveTime == now - coord.last_activity

\* faulty variant of ShouldShutdownDueToTimeout: the inactive time is not
\* looked at
ShouldShutdownMut == coord.shutdown_requested

\* SessionCoordinator.should_shutdown_due_to_timeout
ShouldShutdownDueToTimeout ==
    IF coord.shutdown_requested
    THEN TRUE
    ELSE GetInactiveTime > coord.session_timeout

\* SessionCoordinator.is_session_active
IsSessionActive == ~coord.shutdown_requested /\ ~ShouldShutdownDueToTimeout

\* SessionCoordinator.update_activity, called by the thread that owns the
\* coordinator
CoordUpdateActivity ==
    /\ ~coord.shutdown_requested
    /\ coord' = [coord EXCEPT !.last_activity = now]
    /\ UNCHANGED <<moduleVars, now, sessionVars, statusFile, pidFile, sessionFile, startVars, mon>>

\* SessionCoordinator.set_processing(b): processing counts as activity
CoordSetProcessing(b) ==
    /\ ~coord.shutdown_requested
    /\ coord.processing # b
    /\ coord' = [coord EXCEPT !.processing = b,
                              !.last_activity = IF b THEN now ELSE @]
    /\ UNCHANGED <<moduleVars, now, sessionVars, statusFile, pidFile, sessionFile, startVars, mon>>

\* _monitor_loop: while not self.coordinator.shutdown_requested
MonLoop ==
    /\ mon.pc = "loop"
    /\ mon' = [mon EXCEPT !.pc = IF coord.shutdown_requested THEN "stopped" ELSE "should"]
    /\ UNCHANGED <<moduleVars, now, sessionVars, statusFile, pidFile, sessionFile, startVars, coord>>

\* if self.coordinator.should_shutdown_due_to_timeout(): ...
\* else: time.sleep(self.check_interval)
MonShould ==
    /\ mon.pc = "should"
    /\ mon' = IF ShouldShutdownDueToTimeout
              THEN [mon EXCEPT !.pc = "request"]
              ELSE [pc |-> "sleep", wakeAt |-> now + CheckInterval]
    /\ UNCHANGED <<moduleVars, now, sessionVars, statusFile, pidFile, sessionFile, startVars, coord>>

\* self.coordinator.request_shutdown(); break
MonRequest ==
    /\ mon.pc = "request"
    /\ coord' = [coord EXCEPT !.shutdown_requested = TRUE]
    /\ mon' = [mon EXCEPT !.pc = "stopped"]
    /\ UNCHANGED <<moduleVars, now, sessionVars, statusFile, pidFile, sessionFile, startVars>>

\* time.sleep(self.check_interval) returns
MonWake ==
    /\ mon.pc = "sleep"
    /\ now >= mon.wakeAt
    /\ mon' = [pc |-> "loop", wakeAt |-> 0]
    /\ UNCHANGED <<moduleVars, now, sessionVars, statusFile, pidFile, sessionFile, startVars, coord>>

MonitorLoop ==
    \/ MonLoop
    \/ MonShould
    \/ MonRequest
    \/ MonWake

\* the daemon's main thread handles one transcribe request as a whole:
\* update_activity, and a model that load_model_on_demand has loaded unless
\* the clip was empty or the load failed; the status file is rewritten
DaemonTranscribe ==
    /\ tpc["main"] = "loop"
    /\ ~shutdown_requested
    /\ last_activity' = now
    /\ \/ UNCHANGED <<model, is_model_loaded>>
       \/ model' = "Model" /\ is_model_loaded' = TRUE
    /\ WriteStatus(FALSE)
    /\ UNCHANGED <<moduleVars, now, processing, shutdown_requested, requestDir, reqKind,
                   responses, pidFile, sessionFile, tpc, localVars, ghostVars,
                   startVars, coordVars>>

NextIdle ==
    \/ Tick(StartTick)
    \/ CoordUpdateActivity
    \/ \E b \in BOOLEAN : CoordSetProcessing(b)
    \/ MonitorLoop
    \/ DaemonTranscribe
    \/ RunLoop
    \/ RunFor
    \/ ShutdownSession("main")
    \/ MonitorThread

SpecIdle == Init /\ [][NextIdle]_vars

\* --------------------------------------------------------------- SpecFlag
\* SpecIdle with the coordinator's methods called by its owner in any
\* state, also after shutdown has been requested.

\* SessionCoordinator.get_session_status: active = not shutdown_requested
GetSessionStatus ==
    [active |-> ~coord.shutdown_requested, processing |-> coord.processing,
     last_activity |-> coord.last_activity,
     session_timeout |-> coord.session_timeout]

\* SessionCoordinator.update_activity
UpdateActivityCall ==
    /\ coord' = [coord EXCEPT !.last_activity = now]
    /\ UNCHANGED <<moduleVars, now, sessionVars, statusFile, pidFile, sessionFile, startVars, mon>>

\* SessionCoordinator.set_processing(b)
SetProcessingCall(b) ==
    /\ coord' = [coord EXCEPT !.processing = b,
                              !.last_activity = IF b THEN now ELSE @]
    /\ UNCHANGED <<moduleVars, now, sessionVars, statusFile, pidFile, sessionFile, startVars, mon>>

\* faulty variant of ExtendSession: an extension revives a session whose
\* shutdown was requested
ExtendSessionMut(a) ==
    /\ coord.session_timeout + a <= SessionTimeout + StartTick
    /\ coord' = [coord EXCEPT !.session_timeout = @ + a,
                              !.last_activity = now,
                              !.shutdown_requested = FALSE]
    /\ UNCHANGED <<moduleVars, now, sessionVars, statusFile, pidFile, sessionFile, startVars, mon>>

\* SessionCoordinator.extend_session(additional_seconds): the timeout grows
\* when the argument is positive, then update_activity
ExtendSession(a) ==
    /\ coord.session_timeout + a <= SessionTimeout + StartTick
    /\ coord' = [coord EXCEPT !.session_timeout = @ + a,
                              !.last_activity = now]
    /\ UNCHANGED <<moduleVars, now, sessionVars, statusFile, pidFile, sessionFile, startVars, mon>>

\* SessionCoordinator.update_status_file: the fields of get_session_status
\* and the time of writing
UpdateStatusFile ==
    /\ coord' = [coord EXCEPT !.status_file =
                    <<[active |-> GetSessionStatus.active, timestamp |-> now]>>]
    /\ UNCHANGED <<moduleVars, now, sessionVars, statusFile, pidFile, sessionFile, startVars, mon>>

NextFlag ==
    \/ Tick(StartTick)
    \/ UpdateActivityCall
    \/ \E b \in BOOLEAN : SetProcessingCall(b)
    \/ \E a \in {0, StartTick} : ExtendSession(a)
    \/ UpdateStatusFile
    \/ MonitorLoop
    \/ DaemonTranscribe
    \/ RunLoop
    \/ RunFor
    \/ ShutdownSession("main")
    \/ MonitorThread

SpecFlag == Init /\ [][NextFlag]_vars

\* ------------------------------------------------------------- SpecEngine
\* src/src/speech_engine.py: one SpeechEngine object and its single caller,
\* beside the session daemon's request loop (without its monitor thread, so
\* that one session lasts).  Of a TranscriptionResult the model keeps
\* success and segments.
TranscriptionResult(ok, segs) == [success |-> ok, segments |-> segs]

\* transcribe_audio is called: if not self.is_model_loaded: load_model()
EngineTranscribeAudio ==
    /\ engine.pc = "idle"
    /\ engine' = [engine EXCEPT !.pc = IF engine.is_model_loaded
                                       THEN "transcribe" ELSE "load",
                                !.result = <<>>,
                                !.constructions = 0]
    /\ UNCHANGED <<now, sessionVars, statusFile, pidFile, sessionFile, startVars, coordVars,
                   besideEngine>>

\* load_model up to self.model = WhisperModel(...): faster-whisper missing
\* or the constructor raising end it with False, and transcribe_audio
\* returns the failure result
EngineLoadModel ==
    /\ engine.pc = "load"
    /\ \/ engine' = [engine EXCEPT !.model = "Model", !.pc = "loaded",
                                   !.constructions = @ + 1]
       \/ \E n \in {0, 1} :
             engine' = [engine EXCEPT !.pc = "idle",
                                      !.result = <<TranscriptionResult(FALSE, <<>>)>>,
                                      !.constructions = @ + n]
    /\ UNCHANGED <<now, sessionVars, statusFile, pidFile, sessionFile, startVars, coordVars,
                   besideEngine>>

\* load_model: self.is_model_loaded = True; return True
EngineLoadSetFlag ==
    /\ engine.pc = "loaded"
    /\ engine' = [engine EXCEPT !.is_model_loaded = TRUE, !.pc = "transcribe"]
    /\ UNCHANGED <<now, sessionVars, statusFile, pidFile, sessionFile, startVars, coordVars,
                   besideEngine>>

\* self.model.transcribe and the segment loop; an exception gives the
\* failure result
EngineTranscribe ==
    /\ engine.pc = "transcribe"
    /\ \E res \in {TranscriptionResult(TRUE, <<"text">>),
                   TranscriptionResult(TRUE, <<>>),
                   TranscriptionResult(FALSE, <<>>)} :
          engine' = [engine EXCEPT !.pc = "idle", !.result = <<res>>]
    /\ UNCHANGED <<now, sessionVars, statusFile, pidFile, sessionFile, startVars, coordVars,
                   besideEngine>>

\* release_model
EngineReleaseModel ==
    /\ engine.pc = "idle"
    /\ engine.is_model_loaded /\ engine.model = "Model"
    /\ engine' = [engine EXCEPT !.model = "None", !.is_model_loaded = FALSE]
    /\ UNCHANGED <<now, sessionVars, statusFile, pidFile, sessionFile, startVars, coordVars,
                   besideEngine>>

SpeechEngine ==
    \/ EngineTranscribeAudio
    \/ EngineLoadModel
    \/ EngineLoadSetFlag
    \/ EngineTranscribe
    \/ EngineReleaseModel

RequestLoop ==
    \/ RunLoop
    \/ RunFor
    \/ TranscribeUpdateActivity
    \/ TranscribeSetProcessing
    \/ LoadModelOnDemand
    \/ LoadModelSetFlag
    \/ TranscribeStart
    \/ TranscribeSegments
    \/ TranscribeFinally
    \/ ProcessRequestWrite
    \/ ProcessRequestUnlink

NextEngine ==
    \/ \E k \in Kinds : Submit(k)
    \/ RequestLoop
    \/ SpeechEngine

SpecEngine == Init /\ [][NextEngine]_vars

\* -------------------------------------------------------------- SpecRoute
\* The confidence routing of SpeechDaemon.process_audio_request with
\* correct_with_claude_limited_context ("daemon") and of
\* speech_to_text_confidence.py's main with correct_with_claude_cli ("cli").
\* Confidence is in percent: CONFIDENCE_THRESHOLD = 0.75 is 75.
ConfidenceThreshold == 75
Confidences == {0, 74, 75, 76, 100}
Transcripts == {"", "test thing"}
Backends == {"ok", "nonzero", "timeout", "raises"}
Impls == {"daemon", "cli"}

\* the name each implementation gives the correction path
CorrectionPath(impl) ==
    IF impl = "daemon" THEN "LIMITED CONTEXT" ELSE "CLAUDE CORRECTION"

\* the backend's answer, stripped
Corrected(raw) == "corrected"

\* transcribe_with_confidence has returned raw_transcript and confidence;
\* without a non-empty segment the transcript is '' and the confidence
\* "np.mean(confidences) if confidences else 0.0" is 0.0
RouteTranscribed ==
    /\ route.pc \in {"idle", "done"}
    /\ \E i \in Impls, t \in Transcripts, c \in Confidences, b \in Backends :
          /\ t = "" => c = 0
          /\ route' = [pc |-> "decide", impl |-> i, raw |-> t, confidence |-> c,
                       backend |-> b, final |-> "", path |-> "", calls |-> 0]
    /\ UNCHANGED <<now, sessionVars, statusFile, pidFile, sessionFile, startVars, coordVars,
                   besideRoute>>

\* faulty variant of RouteDecide: the boundary goes to the correction
RouteDecideMut ==
    /\ route.pc = "decide"
    /\ route' = IF route.confidence > ConfidenceThreshold
                THEN [route EXCEPT !.pc = "done", !.final = route.raw,
                                   !.path = "FAST PATH"]
                ELSE [route EXCEPT !.pc = "correct"]
    /\ UNCHANGED <<now, sessionVars, statusFile, pidFile, sessionFile, startVars, coordVars,
                   besideRoute>>

\* if confidence >= CONFIDENCE_THRESHOLD: final_transcript = raw_transcript
\* else: the correction is called
RouteDecide ==
    /\ route.pc = "decide"
    /\ route' = IF route.confidence >= ConfidenceThreshold
                THEN [route EXCEPT !.pc = "done", !.final = route.raw,
                                   !.path = "FAST PATH"]
                ELSE [route EXCEPT !.pc = "correct"]
    /\ UNCHANGED <<now, sessionVars, statusFile, pidFile, sessionFile, startVars, coordVars,
                   besideRoute>>

\* faulty variant of CorrectWithClaude: a timeout of the backend is not
\* caught
CorrectWithClaudeMut ==
    /\ route.pc = "correct"
    /\ route' = IF route.backend = "ok"
                THEN [route EXCEPT !.pc = "done", !.calls = @ + 1,
                                   !.final = Corrected(route.raw),
                                   !.path = CorrectionPath(route.impl)]
                ELSE IF route.backend = "timeout"
                THEN [route EXCEPT !.pc = "raised", !.calls = @ + 1]
                ELSE [route EXCEPT !.pc = "done", !.calls = @ + 1,
                                   !.final = route.raw,
                                   !.path = CorrectionPath(route.impl)]
    /\ UNCHANGED <<now, sessionVars, statusFile, pidFile, sessionFile, startVars, coordVars,
                   besideRoute>>

\* correct_with_claude_limited_context / correct_with_claude_cli:
\* subprocess.run(cmd, ..., timeout=...); returncode 0 gives the stripped
\* stdout, any other returncode the raw transcript; TimeoutExpired and every
\* other exception are caught and give the raw transcript
CorrectWithClaude ==
    /\ route.pc = "correct"
    /\ route' = IF route.backend = "ok"
                THEN [route EXCEPT !.pc = "done", !.calls = @ + 1,
                                   !.final = Corrected(route.raw),
                                   !.path = CorrectionPath(route.impl)]
                ELSE [route EXCEPT !.pc = "done", !.calls = @ + 1,
                                   !.final = route.raw,
                                   !.path = CorrectionPath(route.impl)]
    /\ UNCHANGED <<now, sessionVars, statusFile, pidFile, sessionFile, startVars, coordVars,
                   besideRoute>>

NextRoute ==
    \/ RouteTranscribed
    \/ RouteDecide
    \/ CorrectWithClaude

SpecRoute == Init /\ [][NextRoute]_vars

\* ------------------------------------------------------------ SpecDenoise
\* AudioPreprocessor.apply_noise_cancelling.  A clip is the sequence of its
\* samples.  scipy's filtfilt, numpy's fft/ifft and the scaling return an
\* array as long as their argument; which samples they give is left open.
\* Each of them may raise (filtfilt does on a clip shorter than its padding).
MaxClipLen == 2
Samples == {-1, 0, 1}
SampleClips == UNION {[1..n -> Samples] : n \in 0..MaxClipLen}

\* the arrays a library step can return for an argument a
SameLength(a) == [1..Len(a) -> Samples]

\* apply_noise_cancelling(audio, sample_rate): original_audio = audio.copy()
DenoiseCall ==
    /\ denoise.pc \in {"idle", "done"}
    /\ \E clip \in SampleClips :
          denoise' = [pc |-> "highpass", original_audio |-> clip,
                      audio |-> clip, out |-> <<>>, failed |-> FALSE]
    /\ UNCHANGED <<now, sessionVars, statusFile, pidFile, sessionFile, startVars, coordVars,
                   besideDenoise>>

\* 1. butter + filtfilt
DenoiseHighPass ==
    /\ denoise.pc = "highpass"
    /\ \/ \E a \in SameLength(denoise.audio) :
             denoise' = [denoise EXCEPT !.audio = a, !.pc = "spectral"]
       \/ denoise' = [denoise EXCEPT !.pc = "except"]
    /\ UNCHANGED <<now, sessionVars, statusFile, pidFile, sessionFile, startVars, coordVars,
                   besideDenoise>>

\* 2. spectral subtraction, skipped when noise_samples <= 100 (the clip is
\* short for its sample rate)
DenoiseSpectral ==
    /\ denoise.pc = "spectral"
    /\ \/ denoise' = [denoise EXCEPT !.pc = "normalize"]
       \/ \E a \in SameLength(denoise.audio) :
             denoise' = [denoise EXCEPT !.audio = a, !.pc = "normalize"]
       \/ denoise' = [denoise EXCEPT !.pc = "except"]
    /\ UNCHANGED <<now, sessionVars, statusFile, pidFile, sessionFile, startVars, coordVars,
                   besideDenoise>>

\* 3. normalization when max_val > 0; return audio.astype(np.float32)
DenoiseNormalize ==
    /\ denoise.pc = "normalize"
    /\ \/ \E a \in IF \E i \in 1..Len(denoise.audio) : denoise.audio[i] # 0
                   THEN SameLength(denoise.audio) ELSE {denoise.audio} :
             denoise' = [denoise EXCEPT !.audio = a, !.out = a, !.pc = "done"]
       \/ denoise' = [denoise EXCEPT !.pc = "except"]
    /\ UNCHANGED <<now, sessionVars, statusFile, pidFile, sessionFile, startVars, coordVars,
                   besideDenoise>>

\* faulty variant of DenoiseExcept: the half-processed audio is returned
DenoiseExceptMut ==
    /\ denoise.pc = "except"
    /\ denoise' = [denoise EXCEPT !.out = denoise.audio, !.failed = TRUE,
                                  !.pc = "done"]
    /\ UNCHANGED <<now, sessionVars, statusFile, pidFile, sessionFile, startVars, coordVars,
                   besideDenoise>>

\* except Exception: return original_audio
DenoiseExcept ==
    /\ denoise.pc = "except"
    /\ denoise' = [denoise EXCEPT !.out = denoise.original_audio,
                                  !.failed = TRUE, !.pc = "done"]
    /\ UNCHANGED <<now, sessionVars, statusFile, pidFile, sessionFile, startVars, coordVars,
                   besideDenoise>>

NextDenoise ==
    \/ DenoiseCall
    \/ DenoiseHighPass
    \/ DenoiseSpectral
    \/ DenoiseNormalize
    \/ DenoiseExcept

SpecDenoise == Init /\ [][NextDenoise]_vars

\* ------------------------------------------------------------ SpecFileReq
\* src/speech_daemon.py: SpeechDaemon's background thread serving the
\* request files /tmp/speech_request_*.json.  A request names its audio file
\* and its response file; requestDir, reqKind and responses stand for these
\* files, "main" in tpc for the background thread.  The result dictionary
\* (raw, corrected, confidence, ...) is kept as its two transcripts.
FileKinds == {"malformed", "missing", "speech"}

\* background_processor: while self.running: self.check_file_requests();
\* request_files = glob.glob('/tmp/speech_request_*.json')
BackgroundProcessor ==
    /\ tpc["main"] = "loop"
    /\ request_files' = requestDir
    /\ Goto("main", "fr_for")
    /\ UNCHANGED <<moduleVars, startVars, coordVars, now, daemonVars, fileVars, cur, results, inactive_time, wakeAt,
                   typed, ghostVars>>

\* for request_file in request_files: open, json.load, request['audio_file'],
\* request['response_file']; a file that is not JSON or lacks a key raises
CheckFileRequestsFor ==
    /\ tpc["main"] = "fr_for"
    /\ \/ /\ request_files = {}
          /\ Goto("main", "loop")
          /\ UNCHANGED <<request_files, cur>>
       \/ \E r \in request_files :
             /\ request_files' = request_files \ {r}
             /\ cur' = r
             /\ Goto("main", IF reqKind[r] \in {"malformed", "partial"}
                             THEN "fr_except" ELSE "fr_process")
    /\ UNCHANGED <<moduleVars, startVars, coordVars, now, daemonVars, fileVars, results, inactive_time, wakeAt,
                   typed, ghostVars>>

\* result = self.process_audio_request(audio_file): None when the audio
\* cannot be loaded, the result dictionary otherwise; an exception of the
\* model or of the correction escapes.  "if result:" selects the write.
ProcessAudioRequest ==
    /\ tpc["main"] = "fr_process"
    /\ \/ /\ reqKind[cur] = "missing"
          /\ results' = <<>>
          /\ Goto("main", "fr_remove")
       \/ /\ reqKind[cur] # "missing"
          /\ results' = <<"text">>
          /\ Goto("main", "fr_write")
       \/ /\ reqKind[cur] # "missing"
          /\ results' = <<>>
          /\ Goto("main", "fr_except")
    /\ UNCHANGED <<moduleVars, startVars, coordVars, now, daemonVars, fileVars, request_files, cur, inactive_time,
                   wakeAt, typed, ghostVars>>

\* with open(response_file, 'w') as f: json.dump(result, f); an I/O error
\* raises
CheckFileRequestsWrite ==
    /\ tpc["main"] = "fr_write"
    /\ \/ /\ responses' = [responses EXCEPT ![cur] =
                              <<[raw |-> results, corrected |-> results]>>]
          /\ Goto("main", "fr_remove")
       \/ /\ Goto("main", "fr_except")
          /\ UNCHANGED responses
    /\ UNCHANGED <<moduleVars, startVars, coordVars, now, daemonVars, requestDir, reqKind, statusFile, pidFile,
                   sessionFile, localVars, ghostVars>>

\* os.remove(request_file): both "# Cleanup request file" after the write
\* and the except clause's "# Try to cleanup on error"
CheckFileRequestsRemove ==
    /\ tpc["main"] \in {"fr_remove", "fr_except"}
    /\ requestDir' = requestDir \ {cur}
    /\ reqKind' = [reqKind EXCEPT ![cur] = "none"]
    /\ cur' = 0
    /\ results' = <<>>
    /\ Goto("main", "fr_for")
    /\ UNCHANGED <<moduleVars, startVars, coordVars, now, daemonVars, responses, statusFile, pidFile,
                   sessionFile, request_files, inactive_time, wakeAt, typed,
                   ghostVars>>

NextFileReq ==
    \/ Tick(TickStep)
    \/ \E k \in FileKinds : Submit(k)
    \/ BackgroundProcessor
    \/ CheckFileRequestsFor
    \/ ProcessAudioRequest
    \/ CheckFileRequestsWrite
    \/ CheckFileRequestsRemove

SpecFileReq == Init /\ [][NextFileReq]_vars

\* ------------------------------------------------------------ SpecHandoff
\* src/speech_to_text_daemon_client.py: process_with_daemon beside
\* SpeechDaemon's file request loop.  The client names its request and
\* response files after the clock; the model uses the request's id for both.
\* What process_without_daemon returns is a result computed in the client.

\* with open(request_file, 'w') as f: the file exists from here on, with
\* content that does not parse ("partial") until json.dump has run
ClientOpenRequest ==
    /\ client.pc \in {"idle", "done"}
    /\ nextId \in ReqIds
    /\ requestDir' = requestDir \cup {nextId}
    /\ reqKind' = [reqKind EXCEPT ![nextId] = "partial"]
    /\ client' = [pc |-> "dump", id |-> nextId, response |-> <<>>,
                  returned |-> <<>>, fallback |-> FALSE]
    /\ nextId' = nextId + 1
    /\ UNCHANGED <<now, daemonVars, responses, statusFile, pidFile, sessionFile, tpc,
                   localVars, handling, failCount, countTo, transcribed, err,
                   startVars, coordVars, besideClient>>

\* json.dump(request, f) and the close: the content is complete; when the
\* daemon has removed the name meanwhile the data goes to the unlinked file
ClientWriteRequest ==
    /\ client.pc = "dump"
    /\ \E k \in FileKinds \ {"malformed"} :
          reqKind' = IF client.id \in requestDir
                     THEN [reqKind EXCEPT ![client.id] = k]
                     ELSE reqKind
    /\ client' = [client EXCEPT !.pc = "poll"]
    /\ UNCHANGED <<now, daemonVars, requestDir, responses, statusFile, pidFile, sessionFile,
                   tpc, localVars, ghostVars, startVars, coordVars, besideClient>>

\* for i in range(max_wait * 10): if os.path.exists(response_file):
\* json.load; after 60 s without a response the client returns None
ClientPoll ==
    /\ client.pc = "poll"
    /\ IF responses[client.id] # <<>>
       THEN client' = [client EXCEPT !.response = responses[client.id],
                                     !.pc = "rm_request"]
       ELSE client' = [client EXCEPT !.pc = "done"]
    /\ UNCHANGED <<now, sessionVars, statusFile, pidFile, sessionFile, startVars, coordVars,
                   besideClient>>

\* os.remove(request_file): FileNotFoundError when the daemon has removed
\* it, caught by "except Exception"
ClientRemoveRequest ==
    /\ client.pc = "rm_request"
    /\ IF client.id \in requestDir
       THEN /\ requestDir' = requestDir \ {client.id}
            /\ reqKind' = [reqKind EXCEPT ![client.id] = "none"]
            /\ client' = [client EXCEPT !.pc = "rm_response"]
       ELSE /\ client' = [client EXCEPT !.pc = "except"]
            /\ UNCHANGED <<requestDir, reqKind>>
    /\ UNCHANGED <<now, daemonVars, responses, statusFile, pidFile, sessionFile, tpc,
                   localVars, ghostVars, startVars, coordVars, besideClient>>

\* os.remove(response_file); return response
ClientRemoveResponse ==
    /\ client.pc = "rm_response"
    /\ responses' = [responses EXCEPT ![client.id] = <<>>]
    /\ client' = [client EXCEPT !.returned = client.response, !.pc = "done"]
    /\ UNCHANGED <<now, daemonVars, requestDir, reqKind, statusFile, pidFile, sessionFile,
                   tpc, localVars, ghostVars, startVars, coordVars, besideClient>>

\* except Exception: return process_without_daemon(audio_file), which
\* transcribes the audio in the client's process
ClientExcept ==
    /\ client.pc = "except"
    /\ client' = [client EXCEPT
                    !.returned = <<[raw |-> <<"local">>, corrected |-> <<"local">>]>>,
                    !.fallback = TRUE, !.pc = "done"]
    /\ UNCHANGED <<now, sessionVars, statusFile, pidFile, sessionFile, startVars, coordVars,
                   besideClient>>

ProcessWithDaemon ==
    \/ ClientOpenRequest
    \/ ClientWriteRequest
    \/ ClientPoll
    \/ ClientRemoveRequest
    \/ ClientRemoveResponse
    \/ ClientExcept

NextHandoff ==
    \/ ProcessWithDaemon
    \/ BackgroundProcessor
    \/ CheckFileRequestsFor
    \/ ProcessAudioRequest
    \/ CheckFileRequestsWrite
    \/ CheckFileRequestsRemove

SpecHandoff == Init /\ [][NextHandoff]_vars

\* --------------------------------------------------------------- SpecApi
\* src/speech_daemon.py: SpeechDaemon.process_request beside the queue half
\* of background_processor.  A submission is numbered (ghost) and a result
\* carries the number of the submission it was computed from.

MaxCalls == 3

\* self.processing_queue.put(audio_file); the audio file may be one that
\* process_audio_request cannot load
ApiPut(c) ==
    /\ api.calls[c].pc \in {"idle", "returned"}
    /\ api.submitted < MaxCalls
    /\ \E ok \in BOOLEAN :
          api' = [api EXCEPT
                    !.processing_queue = Append(@, [sub |-> api.submitted + 1, ok |-> ok]),
                    !.submitted = @ + 1,
                    !.calls[c] = [pc |-> "wait", sub |-> api.submitted + 1, got |-> <<>>]]
    /\ UNCHANGED <<now, sessionVars, statusFile, pidFile, sessionFile, startVars, coordVars,
                   besideApi>>

\* result = self.result_queue.get(timeout=30); return result
ApiGet(c) ==
    /\ api.calls[c].pc = "wait"
    /\ api.result_queue # <<>>
    /\ api' = [api EXCEPT !.result_queue = Tail(@),
                          !.calls[c].got = <<Head(api.result_queue)>>,
                          !.calls[c].pc = "returned"]
    /\ UNCHANGED <<now, sessionVars, statusFile, pidFile, sessionFile, startVars, coordVars,
                   besideApi>>

\* except queue.Empty: return None
ApiTimeout(c) ==
    /\ api.calls[c].pc = "wait"
    /\ api.result_queue = <<>>
    /\ api' = [api EXCEPT !.calls[c].pc = "returned"]
    /\ UNCHANGED <<now, sessionVars, statusFile, pidFile, sessionFile, startVars, coordVars,
                   besideApi>>

\* audio_file = self.processing_queue.get(timeout=1)
WorkerGet ==
    /\ api.worker.pc = "get"
    /\ api.processing_queue # <<>>
    /\ api' = [api EXCEPT !.processing_queue = Tail(@),
                          !.worker = [pc |-> "process",
                                      item |-> <<Head(api.processing_queue)>>]]
    /\ UNCHANGED <<now, sessionVars, statusFile, pidFile, sessionFile, startVars, coordVars,
                   besideApi>>

\* result = self.process_audio_request(audio_file);
\* if result: self.result_queue.put(result); task_done
WorkerProcess ==
    /\ api.worker.pc = "process"
    /\ api' = [api EXCEPT
                 !.result_queue = IF api.worker.item[1].ok
                                  THEN Append(@, api.worker.item[1].sub)
                                  ELSE @,
                 !.worker = [pc |-> "get", item |-> <<>>]]
    /\ UNCHANGED <<now, sessionVars, statusFile, pidFile, sessionFile, startVars, coordVars,
                   besideApi>>

ProcessRequestApi ==
    \E c \in Callers : ApiPut(c) \/ ApiGet(c) \/ ApiTimeout(c)

NextApi ==
    \/ ProcessRequestApi
    \/ WorkerGet
    \/ WorkerProcess

SpecApi == Init /\ [][NextApi]_vars

\* ------------------------------------------------------------- SpecCalib
\* src/src/session_daemon.py: collect_baseline_rms at start-up, then for
\* every clip analyze_speech_contrast (with update_calibrated_threshold) and
\* the threshold that transcribe_audio hands to model.transcribe.  RMS
\* levels and thresholds are integers in units of 0.0001.  Of an entry of
\* speech_contrast_data the model keeps speech_rms and, for the timestamp,
\* the number of the clip; contrast_ratio only feeds a log line.

MaxClips == 12

\* self.speech_contrast_data[-10:]
WindowSize == 10
\* if speech_rms > self.baseline_rms * 1.2: numerator and denominator of 1.2
MarginNum == 6
MarginDen == 5
\* collect_baseline_rms: self.baseline_rms = 0.01 on both failure paths
FallbackBaseline == 100
\* buffer_multiplier = 2.0; max(0.1, ...)
BufferMultiplier == 2
InitialFloor == 1000
\* safety_buffer = 1.5: numerator and denominator
SafetyNum == 3
SafetyDen == 2
\* max(0.05, min(0.4, new_threshold))
ThresholdMin == 500
ThresholdMax == 4000
\* abs(new_threshold - self.calibrated_threshold) > 0.02
ThresholdDelta == 200

\* ambient RMS levels that the 3 s recording can yield (0 .. 1.0)
Baselines == {0, 100, 1000, 2000, 2100, 3000}

Max2(a, b) == IF a >= b THEN a ELSE b
Min2(a, b) == IF a <= b THEN a ELSE b
Abs(a) == IF a >= 0 THEN a ELSE 0 - a

\* clip levels around the margin of a baseline: exactly 1.2 times the
\* baseline, and one unit above
ClipRms(b) == {(b * MarginNum) \div MarginDen, (b * MarginNum) \div MarginDen + 1}

\* the last n elements of a list: data[-n:]
LastN(q, n) == IF Len(q) <= n THEN q ELSE SubSeq(q, Len(q) - n + 1, Len(q))

\* collect_baseline_rms: arecord fails (baseline 0.01, threshold left at its
\* default), the recording is analysed (baseline measured, threshold
\* max(0.1, baseline * 2.0)), or an exception (baseline 0.01, threshold 0.2)
CollectBaselineRms ==
    /\ calib.pc = "collect"
    /\ \/ calib' = [calib EXCEPT !.baseline_rms = <<FallbackBaseline>>,
                                 !.pc = "ready"]
       \/ \E b \in Baselines :
             calib' = [calib EXCEPT
                          !.baseline_rms = <<b>>,
                          !.calibrated_threshold = Max2(InitialFloor, b * BufferMultiplier),
                          !.pc = "ready"]
       \/ calib' = [calib EXCEPT !.baseline_rms = <<FallbackBaseline>>,
                                 !.calibrated_threshold = DefaultThreshold,
                                 !.pc = "ready"]
    /\ UNCHANGED <<now, sessionVars, statusFile, pidFile, sessionFile, startVars, coordVars,
                   besideCalib>>

\* new_threshold = max(0.05, min(0.4, self.baseline_rms * 1.5)), doubled so
\* that it stays an integer
Candidate2Mut(b) == Max2(2 * ThresholdMin, (b * SafetyNum * 2) \div SafetyDen)

Candidate2(b) ==
    Max2(2 * ThresholdMin, Min2(2 * ThresholdMax, (b * SafetyNum * 2) \div SafetyDen))

\* update_calibrated_threshold on baseline b and threshold t in use: the
\* new value of calibrated_threshold (baselines are even, so the candidate
\* is a whole number of units)
UpdateCalibratedThreshold(b, t) ==
    IF Abs(Candidate2(b) - 2 * t) > 2 * ThresholdDelta
    THEN Candidate2(b) \div 2
    ELSE t

\* faulty variant of AnalyzeSpeechContrast: a clip exactly at the margin is
\* entered too
AnalyzeSpeechContrastMut ==
    /\ calib.pc = "ready"
    /\ calib.clips < MaxClips
    /\ LET b == calib.baseline_rms[1] IN
       \E rms \in ClipRms(b) :
          IF rms * MarginDen >= b * MarginNum
          THEN calib' = [calib EXCEPT
                  !.clips = @ + 1,
                  !.speech_rms = rms,
                  !.speech_contrast_data =
                      LastN(Append(@, [speech_rms |-> rms, clip |-> calib.clips + 1]),
                            WindowSize),
                  !.accepted = Append(@, [speech_rms |-> rms, clip |-> calib.clips + 1]),
                  !.calibrated_threshold = UpdateCalibratedThreshold(b, @),
                  !.pc = "vad"]
          ELSE calib' = [calib EXCEPT !.clips = @ + 1, !.speech_rms = rms,
                                      !.pc = "vad"]
    /\ UNCHANGED <<now, sessionVars, statusFile, pidFile, sessionFile, startVars, coordVars,
                   besideCalib>>

\* transcribe_audio: analyze_speech_contrast(audio) on the clip read; an
\* entry is appended, the list cut to its last 10, and the threshold
\* recomputed when the clip's RMS is above 1.2 times the baseline
AnalyzeSpeechContrast ==
    /\ calib.pc = "ready"
    /\ calib.clips < MaxClips
    /\ LET b == calib.baseline_rms[1] IN
       \E rms \in ClipRms(b) :
          IF rms * MarginDen > b * MarginNum
          THEN calib' = [calib EXCEPT
                  !.clips = @ + 1,
                  !.speech_rms = rms,
                  !.speech_contrast_data =
                      LastN(Append(@, [speech_rms |-> rms, clip |-> calib.clips + 1]),
                            WindowSize),
                  !.accepted = Append(@, [speech_rms |-> rms, clip |-> calib.clips + 1]),
                  !.calibrated_threshold = UpdateCalibratedThreshold(b, @),
                  !.pc = "vad"]
          ELSE calib' = [calib EXCEPT !.clips = @ + 1, !.speech_rms = rms,
                                      !.pc = "vad"]
    /\ UNCHANGED <<now, sessionVars, statusFile, pidFile, sessionFile, startVars, coordVars,
                   besideCalib>>

\* transcribe_audio after the analysis: the clip is skipped (empty audio,
\* model not loaded) or self.model.transcribe is called with
\* vad_parameters threshold = self.calibrated_threshold
TranscribeVad ==
    /\ calib.pc = "vad"
    /\ \/ calib' = [calib EXCEPT !.vad = <<calib.calibrated_threshold>>,
                                 !.pc = "ready"]
       \/ calib' = [calib EXCEPT !.vad = <<>>, !.pc = "ready"]
    /\ UNCHANGED <<now, sessionVars, statusFile, pidFile, sessionFile, startVars, coordVars,
                   besideCalib>>

NextCalib ==
    \/ CollectBaselineRms
    \/ AnalyzeSpeechContrast
    \/ TranscribeVad

SpecCalib == Init /\ [][NextCalib]_vars

\* --------------------------------------------------------- SpecHeuristic
\* estimate_confidence_heuristic of src/speech_daemon.py and of
\* src/speech_to_text_confidence.py (the two bodies are the same).  A text is
\* the list of its characters; confidences are in percent.

MaxWords == 5

\* confidence = 1.0
StartConfidence == 100
\* if len(text.split()) < 3: confidence -= 0.1
ShortWords == 3
ShortPenalty == 10
\* if len(word) > 3 and not any(vowel in word for vowel in 'aeiou'): -= 0.2
GarbledLen == 3
GarbledPenalty == 20
\* if word in ['uh', 'um', 'er', 'ah']: confidence -= 0.1
FillerPenalty == 10
\* if pattern in text.lower(): confidence -= 0.3
PatternPenalty == 30
\* return max(0.1, confidence)
ConfidenceFloor == 10

Vowels == {"a", "e", "i", "o", "u"}
Fillers == {<<"u", "h">>, <<"u", "m">>, <<"e", "r">>, <<"a", "h">>}
problematic_patterns ==
    <<<<"t", "e", "s", "t", " ", "t", "h", "i", "n", "g">>,
      <<"s", "t", "i", "n", "g">>,
      <<"d", "o", "c", "k", " ", "h", "e", "r">>,
      <<"c", "o", "u", "p", " ", "d", "a">>,
      <<"s", "p", "a", "r", "r", "o", "w", " ", "l", "o", "w">>>>

\* words the transcription can yield: a filler with a capital, a word
\* without vowels longer than 3 characters, one of exactly 3, a word that is
\* a pattern, and two words that form a pattern when adjacent
Vocabulary ==
    {<<"U", "m">>,
     <<"r", "h", "y", "t", "h", "m">>,
     <<"h", "m", "m">>,
     <<"s", "t", "i", "n", "g">>,
     <<"t", "e", "s", "t">>,
     <<"t", "h", "i", "n", "g">>}

\* str.lower on the characters in use
Lower(c) == IF c = "U" THEN "u" ELSE c
LowerText(t) == [i \in 1..Len(t) |-> Lower(t[i])]

\* ' '.join(results)
RECURSIVE Join(_)
Join(ws) ==
    IF Len(ws) = 0 THEN <<>>
    ELSE IF Len(ws) = 1 THEN ws[1]
    ELSE ws[1] \o <<" ">> \o Join(Tail(ws))

\* str.split(): the maximal runs of characters other than blanks
RECURSIVE SplitFrom(_, _, _)
SplitFrom(t, i, w) ==
    IF i > Len(t)
    THEN IF w = <<>> THEN <<>> ELSE <<w>>
    ELSE IF t[i] = " "
         THEN IF w = <<>> THEN SplitFrom(t, i + 1, <<>>)
              ELSE <<w>> \o SplitFrom(t, i + 1, <<>>)
         ELSE SplitFrom(t, i + 1, Append(w, t[i]))

Split(t) == SplitFrom(t, 1, <<>>)

\* pattern in text
Contains(t, pat) ==
    \E i \in 1..(Len(t) - Len(pat) + 1) : SubSeq(t, i, i + Len(pat) - 1) = pat

\* the loop "for word in words", from confidence c
RECURSIVE ForWords(_, _)
ForWords(words, c) ==
    IF words = <<>> THEN c
    ELSE LET word == Head(words)
             c1 == IF Len(word) > GarbledLen /\ \A i \in 1..Len(word) : word[i] \notin Vowels
                   THEN c - GarbledPenalty ELSE c
             c2 == IF word \in Fillers THEN c1 - FillerPenalty ELSE c1
         IN  ForWords(Tail(words), c2)

\* the loop "for pattern in problematic_patterns", from confidence c
RECURSIVE ForPatterns(_, _, _)
ForPatterns(patterns, lowered, c) ==
    IF patterns = <<>> THEN c
    ELSE ForPatterns(Tail(patterns), lowered,
                     IF Contains(lowered, Head(patterns)) THEN c - PatternPenalty ELSE c)

\* faulty variant of EstimateConfidenceHeuristic: the floor is missing
EstimateConfidenceHeuristicMut(text) ==
    LET c0 == IF Len(Split(text)) < ShortWords
              THEN StartConfidence - ShortPenalty ELSE StartConfidence
        c1 == ForWords(Split(LowerText(text)), c0)
    IN  ForPatterns(problematic_patterns, LowerText(text), c1)

EstimateConfidenceHeuristic(text) ==
    LET c0 == IF Len(Split(text)) < ShortWords
              THEN StartConfidence - ShortPenalty ELSE StartConfidence
        c1 == ForWords(Split(LowerText(text)), c0)
        c2 == ForPatterns(problematic_patterns, LowerText(text), c1)
    IN  IF c2 > ConfidenceFloor THEN c2 ELSE ConfidenceFloor

\* transcribe_with_confidence calls the heuristic on the stripped, non-empty
\* text of a segment (one call is followed)
HeuristicCall ==
    /\ textfn.pc = "idle"
    /\ textfn.text = <<>>
    /\ \E n \in 1..MaxWords : \E ws \in [1..n -> Vocabulary] :
          textfn' = [textfn EXCEPT !.pc = "heuristic", !.text = Join(ws),
                                   !.confidence = 0]
    /\ UNCHANGED <<now, sessionVars, statusFile, pidFile, sessionFile, startVars, coordVars,
                   besideText>>

HeuristicReturn ==
    /\ textfn.pc = "heuristic"
    /\ textfn' = [textfn EXCEPT !.pc = "idle",
                                !.confidence = EstimateConfidenceHeuristic(textfn.text)]
    /\ UNCHANGED <<now, sessionVars, statusFile, pidFile, sessionFile, startVars, coordVars,
                   besideText>>

NextHeuristic ==
    \/ HeuristicCall
    \/ HeuristicReturn

SpecHeuristic == Init /\ [][NextHeuristic]_vars

\* -------------------------------------------------------------- SpecStrip
\* correct_with_claude_limited_context, the post-processing of the
\* backend's output: corrected = result.stdout.strip(), then the removal of
\* surrounding quotes.  A text is the list of its characters.

MaxOut == 4

Quote == "\""
\* characters of the backend's output: the quote, a blank, a letter
OutChars == {Quote, " ", "a"}
Outputs == UNION {[1..n -> OutChars] : n \in 0..MaxOut}

\* str.strip(): leading and trailing blanks removed
RECURSIVE LStrip(_)
LStrip(t) == IF t # <<>> /\ Head(t) = " " THEN LStrip(Tail(t)) ELSE t
RECURSIVE RStrip(_)
RStrip(t) ==
    IF t # <<>> /\ t[Len(t)] = " " THEN RStrip(SubSeq(t, 1, Len(t) - 1)) ELSE t
Strip(t) == RStrip(LStrip(t))

\* if corrected.startswith('"') and corrected.endswith('"'):
\*     corrected = corrected[1:-1]
RemoveQuotes(c) ==
    IF c # <<>> /\ Head(c) = Quote /\ c[Len(c)] = Quote
    THEN SubSeq(c, 2, Len(c) - 1)
    ELSE c

\* subprocess.run has returned with returncode 0 and some stdout
StripCall ==
    /\ textfn.pc = "idle"
    /\ \E out \in Outputs :
          textfn' = [textfn EXCEPT !.pc = "strip", !.stdout = out]
    /\ UNCHANGED <<now, sessionVars, statusFile, pidFile, sessionFile, startVars, coordVars,
                   besideText>>

\* corrected = result.stdout.strip(); quotes removed; return corrected
StripReturn ==
    /\ textfn.pc = "strip"
    /\ textfn' = [textfn EXCEPT !.pc = "stripped",
                                !.corrected = RemoveQuotes(Strip(textfn.stdout))]
    /\ UNCHANGED <<now, sessionVars, statusFile, pidFile, sessionFile, startVars, coordVars,
                   besideText>>

NextStrip ==
    \/ StripCall
    \/ StripReturn

SpecStrip == Init /\ [][NextStrip]_vars

\* ------------------------------------------------------------------ claims
ShutdownSteps == {"sd_check", "sd_none", "sd_flag", "sd_files", "sd_requested"}
InShutdown(t) == tpc[t] \in ShutdownSteps
\* the main thread is inside one iteration of run()'s while loop
InTick == tpc["main"] \notin {"loop", "done"} /\ ~InShutdown("main")
Submitted(r) == r < nextId

\* C1: at most one request is inside process_request at any time, it is the
\* one the main thread holds, and a request found by the poll is handled to
\* its end before the loop goes on: within a poll tick every request file
\* still present is waiting in the glob result, is the one in hand, or has
\* its failure logged, and every request file that is gone has a response.
Thm_C1 ==
    /\ Cardinality(handling) <= 1
    /\ handling # {} => handling = {cur} /\ InTick
    /\ InTick => \A r \in requestDir :
                    r \in request_files \/ r \in handling \/ failCount[r] > 0
    /\ \A r \in ReqIds : Submitted(r) /\ r \notin requestDir => responses[r] # <<>>

\* a second request is in hand after a first was answered, while the
\* monitor thread is running shutdown_session
Wit_C1 ==
    \E r1, r2 \in ReqIds :
        /\ r1 # r2
        /\ responses[r1] # <<>>
        /\ handling = {r2}
        /\ InShutdown("monitor")

\* C2: while the main thread is between model.transcribe and the end of the
\* segment collection, self.model is the loaded model.
CE_C2 == tpc["main"] = "t_segments" => model = "Model"

\* C3: is_model_loaded is true exactly when self.model holds a model.
CE_C3 == is_model_loaded <=> (model = "Model")

\* C4: once a request identifier has failed more often than the failure
\* bound, shutdown has been requested (shutdown_session is running or done).
CE_C4 ==
    \A r \in ReqIds :
        failCount[r] > FailureBound =>
            shutdown_requested \/ InShutdown("main") \/ InShutdown("monitor")

\* a response that reports an error: success = false and an error string
IsErrorResponse(f) ==
    /\ f # <<>>
    /\ "success" \in DOMAIN f[1]
    /\ "error" \in DOMAIN f[1]
    /\ f[1].success = FALSE

\* C5: a request that met a fatal error (request file not JSON, audio file
\* unreadable, exception of the inference) has a response with
\* success = false and an error string once its handling is over.
CE_C5 ==
    \A r \in ReqIds :
        /\ reqKind[r] = "malformed" /\ failCount[r] > 0 => IsErrorResponse(responses[r])
        /\ cur = r /\ tpc["main"] = "unlink" /\ err # "none"
              => IsErrorResponse(responses[r])

\* C6: no failure of a request ends the daemon: the main thread leaves
\* run()'s loop only after shutdown was requested.
Thm_C6 == (InShutdown("main") \/ ~Alive) => shutdown_requested

\* a request is answered after an earlier request's failure was logged
Wit_C6 ==
    \E r1, r2 \in ReqIds :
        /\ r1 < r2
        /\ failCount[r1] > 0
        /\ cur = r2 /\ tpc["main"] = "unlink"
        /\ responses[r2] # <<>>

\* C9: while the daemon is alive and not shut down, the status file's
\* timestamp is within the recency window of check_existing_daemon.
CE_C9 ==
    (Alive /\ ~shutdown_requested /\ statusFile # <<>>)
        => now - statusFile[1].timestamp < RecencyWindow

\* C7: a start whose check finds the PID marker naming a live process and a
\* status timestamp less than 60 s old ends there: main() exits, none of the
\* marker files changes, and the process never goes on to the constructor.
Thm_C7 ==
    [][\A p \in Procs :
          /\ (/\ spc[p] = "c_status"
              /\ spc'[p] # "c_status"
              /\ IsAlive(pidRead[p])
              /\ StatusFresh)
                => /\ spc'[p] = "exited"
                   /\ UNCHANGED <<pidFile, sessionFile, statusFile>>
          /\ spc[p] = "exited" => spc'[p] = "exited"]_vars

\* the second start left after it found the first daemon's status 30 s old
Wit_C7 ==
    \E p, q \in Procs :
        /\ spc[p] = "exited" /\ verdict[p] = "responsive"
        /\ spc[q] = "running"
        /\ statusFile # <<>> /\ statusFile[1].pid = q
        /\ now - statusFile[1].timestamp > 0

\* C8: at most one daemon is constructed and polling at any time.
CE_C8 == Cardinality(Polling) <= 1

\* what makes check_existing_daemon take the marker for stale, at the step
\* that looks at it
StaleSeen(p) ==
    \/ spc[p] = "c_read" /\ pidFile = "empty"
    \/ spc[p] = "c_kill" /\ ~IsAlive(pidRead[p])
    \/ spc[p] = "c_status" /\ IsAlive(pidRead[p]) /\ ~StatusFresh

Thm_C11 ==
    [][/\ (mon.pc = "should" /\ GetInactiveTime > SessionTimeout /\ mon' # mon)
              => mon'.pc = "request"
       /\ (mon.pc = "request" /\ mon' # mon) => coord'.shutdown_requested
       /\ mon'.pc = "sleep" => mon'.wakeAt <= now' + CheckInterval
       /\ coord.shutdown_requested => coord'.shutdown_requested
       /\ coord'.shutdown_requested => ~IsSessionActive']_vars

\* after some activity the session stayed idle beyond the timeout and the
\* monitor has requested shutdown
Wit_C11 ==
    /\ coord.last_activity > 0
    /\ now - coord.last_activity > SessionTimeout
    /\ coord.shutdown_requested
    /\ mon.pc = "stopped"
    /\ ~IsSessionActive

\* C12: a tick of the daemon's monitor whose sampled inactive time exceeds
\* session_timeout goes on to shutdown_session, whatever the state of the
\* model.
CE_C12 ==
    [][(/\ tpc["monitor"] = "m_check"
        /\ inactive_time > SessionTimeout
        /\ tpc'["monitor"] # "m_check")
          => tpc'["monitor"] = "sd_check"]_vars

\* C13: neither monitor starts a shutdown at a tick whose sampled inactive
\* time (the clock minus last_activity, read under activity_lock) is at
\* most session_timeout: SessionTimeoutMonitor then goes to sleep and
\* shutdown_requested is set by nobody else; the daemon's monitor samples
\* now - last_activity, goes to sleep on a sample within the timeout, and
\* enters shutdown_session only from a sample above it.
Thm_C13 ==
    [][/\ (/\ mon.pc = "should"
           /\ ~coord.shutdown_requested
           /\ GetInactiveTime <= SessionTimeout
           /\ mon' # mon) => mon'.pc = "sleep"
       /\ (~coord.shutdown_requested /\ coord'.shutdown_requested)
              => mon.pc = "request"
       /\ (tpc["monitor"] = "m_sample" /\ tpc'["monitor"] = "m_check")
              => inactive_time' = now - last_activity
       /\ (/\ tpc["monitor"] = "m_check"
           /\ inactive_time <= SessionTimeout
           /\ tpc'["monitor"] # "m_check") => tpc'["monitor"] = "m_sleep"
       /\ (tpc["monitor"] # "sd_check" /\ tpc'["monitor"] = "sd_check")
              => tpc["monitor"] = "m_check" /\ inactive_time > SessionTimeout]_vars

\* both monitors have just gone to sleep on an inactive time equal to the
\* timeout, the daemon's with a model loaded
Wit_C13 ==
    /\ now - last_activity = SessionTimeout
    /\ is_model_loaded
    /\ tpc["monitor"] = "m_sleep" /\ wakeAt = now + MonitorInterval
    /\ GetInactiveTime = SessionTimeout
    /\ mon.pc = "sleep" /\ mon.wakeAt = now + CheckInterval

CE_C15 ==
    shutdown_requested =>
        pidFile = "absent" /\ ~sessionFile /\ statusFile = <<>>

\* C16: while a ping is in hand the main thread changes neither
\* processing nor last_activity nor the model and its flag, it never enters
\* transcribe_audio, and the response it has written when it comes to
\* delete the request is the pong with the request's identifier.
Thm_C16 ==
    [][LET pingNow == cur # 0 /\ reqKind[cur] = "ping"
           pingNext == cur' # 0 /\ reqKind'[cur'] = "ping"
       IN  /\ ((pingNow \/ pingNext) /\ tpc'["main"] # tpc["main"])
                  => UNCHANGED <<processing, last_activity, model, is_model_loaded>>
           /\ pingNext => tpc'["main"] \in {"write", "unlink"}
           /\ (pingNext /\ tpc'["main"] = "unlink")
                  => responses'[cur'] = <<[id |-> cur', type |-> "pong"]>>]_vars

\* a ping has its pong while a model is loaded and the last activity lies in
\* the past
Wit_C16 ==
    /\ cur # 0
    /\ reqKind[cur] = "ping"
    /\ tpc["main"] = "unlink"
    /\ responses[cur] = <<[id |-> cur, type |-> "pong"]>>
    /\ is_model_loaded
    /\ ~processing
    /\ last_activity < now

\* C17: a ping that the request loop has found is not kept waiting by a
\* transcription: the main thread is never inside transcribe_audio for
\* another request while a ping of the same poll is still unanswered.
CE_C17 ==
    \A r \in request_files :
        (r \in requestDir /\ reqKind[r] = "ping" /\ responses[r] = <<>>)
            => tpc["main"] \notin {"t_activity", "t_processing", "t_load",
                                   "t_loaded", "t_transcribe", "t_segments",
                                   "t_finally"}

\* C18: every clip shorter than 0.15 s or quieter than 0.0005 has
\* has_content false and is rejected by the pre-filter; while such a clip's
\* request is in hand the main thread neither loads nor invokes the model,
\* and the response it has written when it comes to delete the request
\* carries the empty result list.
Thm_C18 ==
    [][LET silentNow == cur # 0 /\ reqKind[cur] = "silent"
           silentNext == cur' # 0 /\ reqKind'[cur'] = "silent"
       IN  /\ (silentNow /\ tpc["main"] = "t_processing")
                  => \A clip \in ClipsOf("silent") :
                        /\ ~AnalyzeAudioContent(clip).has_content
                        /\ ~ProcessAudioFile(clip).preprocessing_applied
                        /\ ~CheckAudioContent(clip)
           /\ ((silentNow \/ silentNext) /\ tpc'["main"] # tpc["main"])
                  => UNCHANGED <<model, is_model_loaded>>
           /\ silentNext => tpc'["main"] \notin TranscribeTry
           /\ (silentNext /\ tpc'["main"] = "unlink")
                  => responses'[cur'] = <<[id |-> cur', results |-> <<>>]>>]_vars

\* a silent clip has been answered with the empty list while no model is
\* loaded
Wit_C18 ==
    /\ cur # 0
    /\ reqKind[cur] = "silent"
    /\ tpc["main"] = "unlink"
    /\ responses[cur] = <<[id |-> cur, results |-> <<>>]>>
    /\ model = "None"
    /\ ~is_model_loaded
    /\ cur \notin typed

\* C19: a request file that the daemon has removed has a response file,
\* written before the removal.
CE_C19 ==
    \A r \in ReqIds :
        (Submitted(r) /\ r \notin requestDir) => responses[r] # <<>>

\* C20: a request is transcribed at most once: the audio of a request that
\* has been through the model is not put through the model again.
CE_C20 ==
    [][(tpc["main"] = "t_segments" /\ tpc'["main"] = "t_finally")
           => cur \notin transcribed]_vars

\* C21: no model is loaded before the first request; the daemon constructs
\* a model only for a request with speech and only while none is loaded; a
\* request that finds the model loaded goes on to transcribe with it; the
\* engine's transcribe_audio, called while unloaded, loads first, and a
\* failed load returns success = false with the engine still unloaded.
Thm_C21 ==
    [][/\ (nextId = 1) => (model = "None" /\ ~is_model_loaded)
       /\ (tpc["main"] = "t_load" /\ tpc'["main"] # "t_load")
              => IF is_model_loaded
                 THEN model' = model /\ tpc'["main"] = "t_transcribe"
                 ELSE /\ model = "None"
                      /\ reqKind[cur] = "speech"
                      /\ tpc'["main"] \in {"t_loaded", "t_finally"}
                      /\ ((tpc'["main"] = "t_loaded") <=> (model' = "Model"))
       /\ (tpc["main"] = "t_loaded" /\ tpc'["main"] # "t_loaded")
              => (is_model_loaded' /\ model' = "Model")
       /\ model' # model => tpc["main"] = "t_load"
       /\ is_model_loaded' # is_model_loaded => tpc["main"] = "t_loaded"
       /\ (engine.pc = "idle" /\ engine'.pc # "idle")
              => ((engine'.pc = "load") <=> ~engine.is_model_loaded)
       /\ (engine.pc = "load" /\ engine'.pc = "idle")
              => /\ engine'.result = <<TranscriptionResult(FALSE, <<>>)>>
                 /\ engine'.model = "None"
                 /\ ~engine'.is_model_loaded
       /\ (engine.pc = "load" /\ engine'.pc \notin {"load", "idle"})
              => engine'.model = "Model"]_vars

\* the second request of a session is about to transcribe with the model the
\* first one loaded, and a call of the engine has ended in a failed load
Wit_C21 ==
    /\ cur = 2
    /\ 1 \notin requestDir
    /\ responses[1] = <<[id |-> 1, results |-> <<"text">>]>>
    /\ tpc["main"] = "t_segments"
    /\ is_model_loaded
    /\ model = "Model"
    /\ engine.pc = "idle"
    /\ engine.result = <<TranscriptionResult(FALSE, <<>>)>>
    /\ ~engine.is_model_loaded
    /\ engine.model = "None"

\* C22: a failed model load is reported only after a second construction,
\* with the degraded configuration, has failed too.
CE_C22 ==
    [][(engine.pc = "load" /\ engine'.pc = "idle")
           => engine'.constructions = 2]_vars

\* C23: a transcript routed with confidence at or above 0.75 comes out
\* unchanged on the fast path, and the correction backend has not been
\* called for it.
Thm_C23 ==
    route.confidence >= ConfidenceThreshold =>
        /\ route.pc # "correct"
        /\ route.calls = 0
        /\ route.pc = "done" => (route.final = route.raw /\ route.path = "FAST PATH")

\* a transcript with confidence exactly 0.75 has been routed
Wit_C23 ==
    /\ route.pc = "done"
    /\ route.confidence = ConfidenceThreshold
    /\ route.raw = "test thing"
    /\ route.final = "test thing"
    /\ route.path = "FAST PATH"

\* C24: a transcript routed with confidence below 0.75 whose correction
\* backend times out, exits non-zero or raises comes out unchanged on the
\* correction path, and the routing does not raise.
Thm_C24 ==
    (route.confidence < ConfidenceThreshold /\ route.backend # "ok") =>
        /\ route.pc # "raised"
        /\ route.pc = "done" =>
              /\ route.final = route.raw
              /\ route.path = CorrectionPath(route.impl)
              /\ route.calls = 1

\* the backend timed out on a low-confidence transcript, and the routing
\* has returned
Wit_C24 ==
    /\ route.pc = "done"
    /\ route.confidence = 74
    /\ route.backend = "timeout"
    /\ route.raw = "test thing"
    /\ route.final = "test thing"
    /\ route.path = "LIMITED CONTEXT"

CE_C26 ==
    [][(shutdown_requested' # shutdown_requested \/ last_activity' # last_activity)
           => \E t \in {"main", "monitor"} : StepsUnderLock(t)]_vars

CE_C28 ==
    (client.pc = "done" /\ client.response # <<>>) =>
        /\ client.returned = client.response
        /\ ~client.fallback
        /\ client.id \notin requestDir
        /\ responses[client.id] = <<>>

\* C29: a call of process_request that returns a result returns the result
\* computed from the audio file that this call submitted.
CE_C29 ==
    \A c \in Callers :
        (api.calls[c].pc = "returned" /\ api.calls[c].got # <<>>) =>
            api.calls[c].got[1] = api.calls[c].sub

\* C30: a request file that the daemon has read while the client was still
\* writing it is not deleted.
CE_C30 ==
    [][(tpc["main"] = "fr_except" /\ cur = client.id /\ client.pc = "dump")
          => client.id \in requestDir']_vars

\* C31: the clean-up of a daemon that shuts down leaves the PID marker in
\* place when the marker names another live process.
CE_C31 ==
    [][\A p \in Procs :
          (spc[p] = "running" /\ spc'[p] = "stopped"
             /\ pidFile \in Procs \ {p} /\ IsAlive(pidFile))
          => pidFile' = pidFile]_vars

\* positions of the main thread inside transcribe_audio between
\* "self.processing = True" and the finally clause
InTranscribe == {"t_load", "t_loaded", "t_transcribe", "t_segments", "t_finally"}

Thm_C33 ==
    [][/\ coord.shutdown_requested => coord'.shutdown_requested
       /\ shutdown_requested => shutdown_requested'
       /\ coord'.shutdown_requested =>
             (~IsSessionActive' /\ ~GetSessionStatus'.active)
       /\ (coord.shutdown_requested /\ coord'.status_file # coord.status_file)
             => ~coord'.status_file[1].active]_vars

\* after shutdown was requested the owner has set processing, extended the
\* timeout and renewed the activity, so that the inactive time is within
\* the timeout again, and has written the status file
Wit_C33 ==
    /\ coord.shutdown_requested
    /\ mon.pc = "stopped"
    /\ coord.processing
    /\ coord.session_timeout > SessionTimeout
    /\ GetInactiveTime <= coord.session_timeout
    /\ coord.status_file = <<[active |-> FALSE, timestamp |-> now]>>
    /\ ~IsSessionActive
    /\ shutdown_requested

\* C34: speech_contrast_data never holds more than 10 entries, it is the
\* last 10 of the clips that were entered, in the order of their arrival,
\* and a clip is entered exactly when its RMS is strictly above 1.2 times
\* the baseline.
Thm_C34 ==
    /\ [](/\ Len(calib.speech_contrast_data) <= WindowSize
          /\ calib.speech_contrast_data = LastN(calib.accepted, WindowSize)
          /\ \A i \in 1..Len(calib.speech_contrast_data) - 1 :
                calib.speech_contrast_data[i].clip
                   < calib.speech_contrast_data[i + 1].clip)
    /\ [][calib'.clips # calib.clips =>
             LET b == calib.baseline_rms[1]
                 entry == [speech_rms |-> calib'.speech_rms, clip |-> calib'.clips]
             IN  IF calib'.speech_rms * MarginDen > b * MarginNum
                 THEN /\ calib'.accepted = Append(calib.accepted, entry)
                      /\ calib'.speech_contrast_data[Len(calib'.speech_contrast_data)]
                            = entry
                 ELSE calib'.speech_contrast_data = calib.speech_contrast_data]_vars

\* an eleventh clip was entered and pushed the first one out; the clip now
\* in hand lies exactly at the margin and was not entered
Wit_C34 ==
    /\ Len(calib.accepted) = WindowSize + 1
    /\ Len(calib.speech_contrast_data) = WindowSize
    /\ calib.speech_contrast_data[1].clip = calib.accepted[2].clip
    /\ calib.pc = "vad"
    /\ calib.speech_rms * MarginDen = calib.baseline_rms[1] * MarginNum
    /\ calib.baseline_rms[1] > 0

\* C35: when the threshold is recomputed, the candidate is 1.5 times the
\* baseline clamped to [0.05, 0.4]; the threshold in use becomes the
\* candidate when the two differ by more than 0.02 and is left unchanged
\* otherwise, as it is by a clip that is not entered.  (Twice the values,
\* to stay in whole units.)
Thm_C35 ==
    [][IF calib'.accepted # calib.accepted
       THEN LET b == calib.baseline_rms[1]
                t == calib.calibrated_threshold
                raw2 == b * 3
                cand2 == IF raw2 < 2 * ThresholdMin THEN 2 * ThresholdMin
                         ELSE IF raw2 > 2 * ThresholdMax THEN 2 * ThresholdMax
                         ELSE raw2
            IN  IF cand2 - 2 * t > 2 * ThresholdDelta \/ 2 * t - cand2 > 2 * ThresholdDelta
                THEN 2 * calib'.calibrated_threshold = cand2
                ELSE calib'.calibrated_threshold = t
       ELSE calib.pc # "collect" =>
               calib'.calibrated_threshold = calib.calibrated_threshold]_vars

\* with a baseline of 0.3 the initial threshold 0.6 was replaced by the
\* candidate, clamped to 0.4, and a later recomputation left it in place
Wit_C35 ==
    /\ calib.baseline_rms = <<3000>>
    /\ calib.calibrated_threshold = ThresholdMax
    /\ Len(calib.accepted) >= 2

\* C36: the threshold handed to model.transcribe lies within [0.05, 0.4].
CE_C36 ==
    calib.vad # <<>> =>
        (ThresholdMin <= calib.vad[1] /\ calib.vad[1] <= ThresholdMax)

\* C37: a request whose transcription yielded no non-empty segment ends
\* with an empty result and without a call of the correction backend.
CE_C37 ==
    (route.pc \in {"correct", "done"} /\ route.raw = "") =>
        /\ route.pc = "done"
        /\ route.calls = 0
        /\ route.final = ""

\* the penalties of the text in hand, counted one kind at a time over its
\* lowered words
Penalties ==
    LET lowered == LowerText(textfn.text)
        heard == Split(lowered)
        garbled == {i \in 1..Len(heard) :
                      LET word == heard[i]
                      IN  Len(word) > GarbledLen
                             /\ \A j \in 1..Len(word) : word[j] \notin Vowels}
        fillers == {i \in 1..Len(heard) : heard[i] \in Fillers}
        patterns == {k \in 1..Len(problematic_patterns) :
                       Contains(lowered, problematic_patterns[k])}
    IN  (IF Len(heard) < ShortWords THEN ShortPenalty ELSE 0)
        + GarbledPenalty * Cardinality(garbled)
        + FillerPenalty * Cardinality(fillers)
        + PatternPenalty * Cardinality(patterns)

\* C38: the confidence returned for a text lies within [0.1, 1.0] and is
\* 1.0 less the penalties of the text (short utterance, each filler word,
\* each vowel-less word longer than 3 characters, each known pattern),
\* floored at 0.1.
Thm_C38 ==
    (textfn.pc = "idle" /\ textfn.text # <<>>) =>
        /\ ConfidenceFloor <= textfn.confidence
        /\ textfn.confidence <= StartConfidence
        /\ LET expected == StartConfidence - Penalties
           IN  textfn.confidence =
                  (IF expected >= ConfidenceFloor THEN expected ELSE ConfidenceFloor)

\* a text whose penalties exceed 0.9: the floor was applied
Wit_C38 ==
    /\ textfn.pc = "idle"
    /\ textfn.text # <<>>
    /\ StartConfidence - Penalties < ConfidenceFloor
    /\ textfn.confidence = ConfidenceFloor

\* the backend's output without its leading and trailing blanks, taken
\* from the positions of its first and last character that is not a blank
Trimmed ==
    LET out == textfn.stdout
        solid == {i \in 1..Len(out) : out[i] # " "}
    IN  IF solid = {} THEN <<>>
        ELSE SubSeq(out, CHOOSE i \in solid : \A j \in solid : i <= j,
                         CHOOSE i \in solid : \A j \in solid : i >= j)

\* C39 as stated: when the trimmed output starts and ends with a quote, the
\* text returned is the trimmed output less one leading and one trailing
\* quote; otherwise it is the trimmed output.
CE_C39 ==
    textfn.pc = "stripped" =>
        IF Trimmed # <<>> /\ Head(Trimmed) = Quote /\ Trimmed[Len(Trimmed)] = Quote
        THEN Trimmed = <<Quote>> \o textfn.corrected \o <<Quote>>
        ELSE textfn.corrected = Trimmed

====
